---------------------------- MODULE Spec2Model ----------------------------
(***************************************************************************)
(* Work-hours calculator: the time string codec (parseTime, formatMinutes, *)
(* sumTimeStrings), the strict parseTime of work_hours_cli, the allocation *)
(* engine (determineStart, calcWorkHours), the comparison of tracked hours *)
(* with manual entries, the WakaTime summaries and the state of App.       *)
(*                                                                         *)
(* Strings are sequences of one-character strings.  Dates are local        *)
(* calendar days counted from 1970-01-01 (a Thursday).  Fractions that the *)
(* code computes in floating point are kept exact as [num, den]; den = 0   *)
(* stands for the non-finite result of a division by zero.                 *)
(***************************************************************************)
EXTENDS Integers, Sequences, FiniteSets, TLC

VARIABLES
    today,      \* the local calendar day `new Date()` reads
    tzWest,     \* TRUE when the local time zone is behind UTC
    call,       \* name of the last operation that ran ("idle" when none)
    arg,        \* its arguments
    ret,        \* what it returned
    prev,       \* the day and the result of an earlier call that is repeated
    form,       \* App: the state shared by the three input modules
    app,        \* App: the active data source and the data of the modules
    now,        \* the instant Date.now() reads, in milliseconds
    localStorage, \* window.localStorage: the entries by key
    calculator, \* WorkHoursCalculator: the state of the component
    tracker,    \* WakaTimeTracker: the state of the component
    network     \* the requests to the WakaTime API, oldest first

\* the variables of the browser session
browser == <<now, localStorage, calculator, tracker, network>>

vars == <<today, tzWest, call, arg, ret, prev, form, app, browser>>

---------------------------------------------------------------------------
(* Bounds *)

MaxMinutes == 200      \* formatMinutes inputs are -MaxMinutes..MaxMinutes
MaxDen == 2            \* denominators of fractional formatMinutes inputs
MaxHrs == 2            \* hour counts 0..MaxHrs in generated time strings
MaxMins == 2           \* minute counts 0..MaxMins in generated time strings
MaxLines == 3          \* lines of a sumTimeStrings text
MaxSpan == 8           \* the calendar window holds MaxSpan + 1 days
MaxRate == 1           \* hourly rates 0..MaxRate
MaxAmount == 21        \* hours 0..MaxAmount given to calculateDiscrepancy
MaxHalfHours == 3      \* per-date values of 0..MaxHalfHours half hours
MaxRecords == 3        \* day records of a WakaTime summary
MaxClock == 2          \* Date.now() stays within MaxClock default ttls of the start
MaxSaves == 2          \* calls of saveToCache in a session
MaxRows == 3           \* rows of an imported sheet
MaxRuns == 3           \* automatic runs of handleCalculate in a session
MaxRequests == 1       \* requests the tracker sends to the API in a session
MaxArgs == 2           \* command-line arguments of a run of time_calculator

---------------------------------------------------------------------------
(* Characters *)

Digits == <<"0", "1", "2", "3", "4", "5", "6", "7", "8", "9">>

\* \d
IsDigit(c) == \E i \in 1..10 : Digits[i] = c

DigitVal(c) == (CHOOSE i \in 1..10 : Digits[i] = c) - 1

\* \s, and the characters String.prototype.trim removes
IsSpace(c) == c \in {" ", "\t", "\n", "\r"}

\* case folding of the /i flag, for the letters the patterns name
Lower(c) ==
    CASE c = "H" -> "h"
      [] c = "R" -> "r"
      [] c = "S" -> "s"
      [] c = "M" -> "m"
      [] c = "I" -> "i"
      [] c = "N" -> "n"
      [] OTHER -> c

\* Number -> String of a non-negative integer, as a template literal does it
RECURSIVE ToDec(_)
ToDec(n) ==
    IF n < 10 THEN <<Digits[n + 1]>>
    ELSE Append(ToDec(n \div 10), Digits[(n % 10) + 1])

\* parseInt(ds, 10) of a string of digits
RECURSIVE parseInt(_)
parseInt(ds) ==
    IF ds = <<>> THEN 0
    ELSE 10 * parseInt(SubSeq(ds, 1, Len(ds) - 1)) + DigitVal(ds[Len(ds)])

\* parseInt(ds, 10) is NaN: ds does not start with a digit
IsNaN(ds) == ds = <<>> \/ ~IsDigit(ds[1])

---------------------------------------------------------------------------
(* The regular expressions *)

\* first index at or after i that holds no digit (greedy \d+ / \d*)
RECURSIVE SkipDigits(_, _)
SkipDigits(s, i) ==
    IF i <= Len(s) /\ IsDigit(s[i]) THEN SkipDigits(s, i + 1) ELSE i

\* first index at or after i that holds no white space (greedy \s*)
RECURSIVE SkipSpaces(_, _)
SkipSpaces(s, i) ==
    IF i <= Len(s) /\ IsSpace(s[i]) THEN SkipSpaces(s, i + 1) ELSE i

\* the literal w, case-insensitively, at index i
MatchWord(s, i, w) ==
    /\ i + Len(w) - 1 <= Len(s)
    /\ \A k \in 1..Len(w) : Lower(s[i + k - 1]) = w[k]

\* one optional group (?:(\d+)\s*<unit>s?)? tried at index i: whether it took
\* part, the digits it captured and the index after it
MatchGroup(s, i, unit) ==
    LET j == SkipDigits(s, i)
        k == SkipSpaces(s, j)
    IN  IF j > i /\ MatchWord(s, k, unit)
        THEN LET e == k + Len(unit)
             IN  [ok |-> TRUE, digits |-> SubSeq(s, i, j - 1),
                  next |-> IF e <= Len(s) /\ Lower(s[e]) = "s" THEN e + 1 ELSE e]
        ELSE [ok |-> FALSE, digits |-> <<>>, next |-> i]

HrUnit == <<"h", "r">>
MinUnit == <<"m", "i", "n">>

\* /(?:(\d+)\s*hrs?)?\s*(?:(\d+)\s*mins?)?/i .match: no anchors and every part
\* optional, so the search succeeds at index 0 of any string (possibly with
\* the empty match)
LenientMatch(s) ==
    LET g1 == MatchGroup(s, 1, HrUnit)
        g2 == MatchGroup(s, SkipSpaces(s, g1.next), MinUnit)
    IN  [matched |-> g1.next <= Len(s) + 1 /\ g2.next <= Len(s) + 1,
         m1 |-> g1.digits, m2 |-> g2.digits]

\* /^(?:(\d+)\s*hrs?)?\s*(?:(\d+)\s*mins?)?$/i .match: the whole string
StrictMatch(s) ==
    LET g1 == MatchGroup(s, 1, HrUnit)
        p  == SkipSpaces(s, g1.next)
        g2 == MatchGroup(s, p, MinUnit)
    IN  [matched |-> g2.next = Len(s) + 1,
         m1 |-> g1.digits, m2 |-> g2.digits]

---------------------------------------------------------------------------
(* Time string codec *)

Returned(v) == [threw |-> FALSE, value |-> v]
Threw == [threw |-> TRUE, value |-> 0]

\* Mutant of parseTime: the strict minute rule applied here too (minutes > 59
\* rejected)
parseTimeRejectingMinutes(timeString) ==
    IF timeString = <<>> THEN Returned(0)
    ELSE LET m == LenientMatch(timeString)
             mins == IF m.m2 # <<>> THEN parseInt(m.m2) ELSE 0
         IN  IF ~m.matched \/ mins > 59 THEN Threw
             ELSE Returned((IF m.m1 # <<>> THEN parseInt(m.m1) ELSE 0) * 60 + mins)

\* parseTime of timeUtils (lenient)
parseTime(timeString) ==
    IF timeString = <<>> THEN Returned(0)
    ELSE LET m == LenientMatch(timeString)
         IN  IF ~m.matched THEN Threw
             ELSE IF (m.m1 # <<>> /\ IsNaN(m.m1)) \/ (m.m2 # <<>> /\ IsNaN(m.m2))
                  THEN Threw
                  ELSE Returned((IF m.m1 # <<>> THEN parseInt(m.m1) ELSE 0) * 60
                                + (IF m.m2 # <<>> THEN parseInt(m.m2) ELSE 0))

\* parseTime of work_hours_cli (strict)
parseTimeStrict(timeString) ==
    LET m == StrictMatch(timeString)
    IN  IF ~m.matched THEN Threw
        ELSE LET hours   == IF m.m1 # <<>> THEN parseInt(m.m1) ELSE 0
                 minutes == IF m.m2 # <<>> THEN parseInt(m.m2) ELSE 0
             IN  IF hours < 0 \/ minutes < 0 \/ minutes > 59 THEN Threw
                 ELSE Returned(hours * 60 + minutes)

Abs(n) == IF n < 0 THEN -n ELSE n

\* Math.round of the fraction q: the nearest integer, halves rounded up
MathRound(q) == (2 * q.num + q.den) \div (2 * q.den)

HrsWord == <<" ", "h", "r", "s", " ">>
MinsWord == <<" ", "m", "i", "n", "s">>

\* Mutant of formatMinutes: the minutes are not reduced modulo 60
formatMinutesNoModulo(q) ==
    LET sign == IF q.num < 0 THEN <<"-">> ELSE <<>>
        totalMinutes == Abs(MathRound(q))
    IN  sign \o ToDec(totalMinutes \div 60) \o HrsWord \o ToDec(totalMinutes) \o MinsWord

\* Mutant of formatMinutes: the sign is dropped
formatMinutesNoSign(q) ==
    LET totalMinutes == Abs(MathRound(q))
    IN  ToDec(totalMinutes \div 60) \o HrsWord \o ToDec(totalMinutes % 60) \o MinsWord

formatMinutes(q) ==
    LET sign == IF q.num < 0 THEN <<"-">> ELSE <<>>
        totalMinutes == Abs(MathRound(q))
        hrs  == totalMinutes \div 60
        mins == totalMinutes % 60
    IN  sign \o ToDec(hrs) \o HrsWord \o ToDec(mins) \o MinsWord

\* text.split('\n')
RECURSIVE SplitLines(_)
SplitLines(text) ==
    IF \A i \in 1..Len(text) : text[i] # "\n" THEN <<text>>
    ELSE LET k == CHOOSE i \in 1..Len(text) :
                      text[i] = "\n" /\ \A j \in 1..(i - 1) : text[j] # "\n"
         IN  <<SubSeq(text, 1, k - 1)>> \o SplitLines(SubSeq(text, k + 1, Len(text)))

\* !s.trim()
Blank(s) == \A i \in 1..Len(s) : IsSpace(s[i])

NotBlank(s) == ~Blank(s)

\* the for loop of sumTimeStrings with its try/catch
RECURSIVE SumLines(_, _)
SumLines(lines, totalMin) ==
    IF lines = <<>> THEN totalMin
    ELSE LET r == parseTime(Head(lines))
         IN  SumLines(Tail(lines), IF r.threw THEN totalMin ELSE totalMin + r.value)

sumTimeStrings(text) ==
    IF Blank(text) THEN Returned(0)
    ELSE Returned(SumLines(SelectSeq(SplitLines(text), NotBlank), 0))

---------------------------------------------------------------------------
(* Allocation engine *)

Frac(n, d) == [num |-> n, den |-> d]

\* new Date("YYYY-MM-DD") is midnight UTC of that day; setHours(0, 0, 0, 0)
\* moves it to the local midnight of the local day that instant falls on,
\* which is the day before in a zone behind UTC
LocalMidnight(dateStr, west) == IF west THEN dateStr - 1 ELSE dateStr

\* Date.prototype.getDay: 0 is Sunday; day 0 (1970-01-01) is a Thursday
getDay(d) == (d + 4) % 7

DayNames == <<"Sun", "Mon", "Tue", "Wed", "Thu", "Fri", "Sat">>

\* Date.prototype.toDateString: the weekday and the calendar day
toDateString(d) == [weekday |-> DayNames[getDay(d) + 1], day |-> d]

\* Mutant of determineStart: the count starts today whatever the period is
determineStartFromToday(billingStart, billingEnd, excludeToday) ==
    IF excludeToday THEN today + 1 ELSE today

\* Mutant of determineStart: a past period has no days left (as in
\* work_hours_cli)
determineStartPastEmpty(billingStart, billingEnd, excludeToday) ==
    IF today > billingEnd THEN billingEnd + 1
    ELSE IF today < billingStart THEN billingStart
    ELSE IF excludeToday THEN today + 1 ELSE today

\* Mutant of determineStart: the case of a period that has not begun is
\* missing
determineStartNoBefore(billingStart, billingEnd, excludeToday) ==
    IF today > billingEnd THEN billingStart
    ELSE IF excludeToday THEN today + 1 ELSE today

determineStart(billingStart, billingEnd, excludeToday) ==
    IF today < billingStart THEN billingStart
    ELSE IF today > billingEnd THEN billingStart
    ELSE IF excludeToday THEN today + 1 ELSE today

NoDays == [workdays |-> 0, remainingDays |-> 0, skipped |-> <<>>, days |-> <<>>]

\* Mutant of DayLoop: the last day of the period is left out (d < billingEnd)
RECURSIVE DayLoopExclusive(_, _, _, _, _)
DayLoopExclusive(d, billingEnd, skipSun, skipSat, acc) ==
    IF ~(d < billingEnd) THEN acc
    ELSE LET day == getDay(d)
         IN  IF (skipSun /\ day = 0) \/ (skipSat /\ day = 6)
             THEN DayLoopExclusive(d + 1, billingEnd, skipSun, skipSat,
                      [acc EXCEPT !.remainingDays = @ + 1,
                                  !.skipped = Append(@, toDateString(d)),
                                  !.days = Append(@, [date |-> d, work |-> FALSE])])
             ELSE DayLoopExclusive(d + 1, billingEnd, skipSun, skipSat,
                      [acc EXCEPT !.remainingDays = @ + 1,
                                  !.workdays = @ + 1,
                                  !.days = Append(@, [date |-> d, work |-> TRUE])])

\* for (let d = new Date(start); d <= billingEnd; d.setDate(d.getDate() + 1))
RECURSIVE DayLoop(_, _, _, _, _)
DayLoop(d, billingEnd, skipSun, skipSat, acc) ==
    IF ~(d <= billingEnd) THEN acc
    ELSE LET day == getDay(d)
         IN  IF (skipSun /\ day = 0) \/ (skipSat /\ day = 6)
             THEN DayLoop(d + 1, billingEnd, skipSun, skipSat,
                      [acc EXCEPT !.remainingDays = @ + 1,
                                  !.skipped = Append(@, toDateString(d)),
                                  !.days = Append(@, [date |-> d, work |-> FALSE])])
             ELSE DayLoop(d + 1, billingEnd, skipSun, skipSat,
                      [acc EXCEPT !.remainingDays = @ + 1,
                                  !.workdays = @ + 1,
                                  !.days = Append(@, [date |-> d, work |-> TRUE])])

\* Mutant of Remaining: clamped at zero
RemainingClamped(total, completed) ==
    IF total - completed < 0 THEN 0 ELSE total - completed

\* const remaining = total - completed
Remaining(total, completed) == total - completed

\* Mutant of PerDay: the division is not guarded
PerDayUnguarded(remaining, workdays) == Frac(remaining, workdays)

\* const perDay = workdays > 0 ? remaining / workdays : 0
PerDay(remaining, workdays) ==
    IF workdays > 0 THEN Frac(remaining, workdays) ELSE Frac(0, 1)

\* Mutant of Earnings: the rate is applied per minute
EarningsPerMinute(minutes, hourlyRate) ==
    Frac(minutes.num * hourlyRate, minutes.den)

\* (minutes / 60) * hourlyRate, for a quotient `minutes`
Earnings(minutes, hourlyRate) ==
    Frac(minutes.num * hourlyRate, minutes.den * 60)

\* The result record, with the local `start` kept beside it
calcWorkHours(totalStr, completedStr, startStr, endStr, skipSun, skipSat, excludeToday, hourlyRate) ==
    LET t == parseTime(totalStr)
        c == parseTime(completedStr)
    IN  IF t.threw \/ c.threw THEN [threw |-> TRUE]
        ELSE
        LET total == t.value
            completed == c.value
            remaining == Remaining(total, completed)
            billingStart == LocalMidnight(startStr, tzWest)
            billingEnd == LocalMidnight(endStr, tzWest)
            start == determineStart(billingStart, billingEnd, excludeToday)
            loop == DayLoop(start, billingEnd, skipSun, skipSat, NoDays)
            perDay == PerDay(remaining, loop.workdays)
        IN  [threw |-> FALSE,
             start |-> start,
             total |-> total,
             completed |-> completed,
             remaining |-> remaining,
             billingStart |-> billingStart,
             billingEnd |-> billingEnd,
             remainingDays |-> loop.remainingDays,
             workdays |-> loop.workdays,
             perDay |-> perDay,
             skipped |-> loop.skipped,
             days |-> loop.days,
             hourlyRate |-> hourlyRate,
             totalEarnings |-> Earnings(Frac(total, 1), hourlyRate),
             completedEarnings |-> Earnings(Frac(completed, 1), hourlyRate),
             remainingEarnings |-> Earnings(Frac(remaining, 1), hourlyRate),
             earningsPerDay |-> Earnings(perDay, hourlyRate)]

---------------------------------------------------------------------------
(* Comparison of tracked hours with manual entries *)

\* the `|| 0` of a map lookup: a missing key and a stored 0 both give 0
HoursOrZero(data, date) ==
    IF date \in DOMAIN data /\ data[date].num # 0 THEN data[date] ELSE Frac(0, 1)

MinutesOrZero(data, date) ==
    IF date \in DOMAIN data THEN data[date] ELSE 0

\* Mutant of allDates: only the dates of the tracked data
allDatesTrackedOnly(wakaTimeData, manualData) == DOMAIN wakaTimeData

\* new Set([...Object.keys(wakaTimeData), ...Object.keys(manualData)])
allDates(wakaTimeData, manualData) == DOMAIN wakaTimeData \cup DOMAIN manualData

\* Mutant of mergeWakaTimeWithManual: the difference is taken in minutes
mergeWakaTimeInMinutes(wakaTimeData, manualData) ==
    [date \in allDates(wakaTimeData, manualData) |->
        LET wakatimeHours == HoursOrZero(wakaTimeData, date)
            manualMinutes == MinutesOrZero(manualData, date)
        IN  [manual |-> Frac(manualMinutes, 60),
             wakatime |-> wakatimeHours,
             difference |-> Frac(wakatimeHours.num * 60 - manualMinutes * wakatimeHours.den,
                                 wakatimeHours.den)]]

\* merged[date] = { manual: manualHours, wakatime: wakatimeHours,
\*                  difference: wakatimeHours - manualHours }
mergeWakaTimeWithManual(wakaTimeData, manualData) ==
    [date \in allDates(wakaTimeData, manualData) |->
        LET wakatimeHours == HoursOrZero(wakaTimeData, date)
            manualMinutes == MinutesOrZero(manualData, date)
            manualHours == Frac(manualMinutes, 60)
        IN  [manual |-> manualHours,
             wakatime |-> wakatimeHours,
             difference |-> Frac(wakatimeHours.num * manualHours.den
                                     - manualHours.num * wakatimeHours.den,
                                 wakatimeHours.den * manualHours.den)]]

\* Mutant of calculateDiscrepancy: exactly 5% still counts as a match
calculateDiscrepancyInclusive(manual, wakatime) ==
    IF manual = 0 /\ wakatime = 0 THEN [percentage |-> Frac(0, 1), status |-> "match"]
    ELSE IF manual = 0 THEN [percentage |-> Frac(100, 1), status |-> "over"]
    ELSE LET difference == wakatime - manual
             percentage == Frac(Abs(difference) * 100, manual)
         IN  [percentage |-> percentage,
              status |-> IF percentage.num <= 5 * percentage.den THEN "match"
                         ELSE IF difference > 0 THEN "over" ELSE "under"]

\* percentage = (Math.abs(difference) / manual) * 100
calculateDiscrepancy(manual, wakatime) ==
    IF manual = 0 /\ wakatime = 0 THEN [percentage |-> Frac(0, 1), status |-> "match"]
    ELSE IF manual = 0 THEN [percentage |-> Frac(100, 1), status |-> "over"]
    ELSE LET difference == wakatime - manual
             percentage == Frac(Abs(difference) * 100, manual)
         IN  [percentage |-> percentage,
              status |-> IF percentage.num < 5 * percentage.den THEN "match"
                         ELSE IF difference > 0 THEN "over" ELSE "under"]

---------------------------------------------------------------------------
(* WakaTime summaries *)

\* a > b for quotients with positive denominators
FracGreater(a, b) == a.num * b.den > b.num * a.den

\* An object or Map is the list of its entries in insertion order, which is
\* the order Object.entries and Map.prototype.entries follow
MapHas(m, key) == \E i \in 1..Len(m) : m[i].key = key

MapGet(m, key) == m[CHOOSE i \in 1..Len(m) : m[i].key = key].value

MapSet(m, key, value) ==
    IF MapHas(m, key)
    THEN [i \in 1..Len(m) |->
             IF m[i].key = key THEN [key |-> key, value |-> value] ELSE m[i]]
    ELSE Append(m, [key |-> key, value |-> value])

\* !data || !data.data || !Array.isArray(data.data)
InvalidData(data) == ~data.isArray

\* Mutant of DateStr: no fall-back to range.start
DateStrNoFallback(day) == day.range.date

\* day.range?.date || day.range?.start || ''  (an absent field is "")
DateStr(day) ==
    IF day.range.date # "" THEN day.range.date ELSE day.range.start

\* day.grand_total && typeof day.grand_total.total_seconds === 'number'
HasSeconds(day) == day.grand_total.isNumber

\* for (const day of data.data) of calculateDailyBreakdown
RECURSIVE DailyLoop(_, _)
DailyLoop(days, dailyData) ==
    IF days = <<>> THEN dailyData
    ELSE LET day == Head(days)
             dateStr == DateStr(day)
         IN  IF dateStr = "" THEN DailyLoop(Tail(days), dailyData)
             ELSE IF HasSeconds(day)
             THEN DailyLoop(Tail(days),
                      MapSet(dailyData, dateStr, Frac(day.grand_total.total_seconds, 3600)))
             ELSE DailyLoop(Tail(days), MapSet(dailyData, dateStr, Frac(0, 1)))

calculateDailyBreakdown(data) ==
    IF InvalidData(data) THEN <<>> ELSE DailyLoop(data.data, <<>>)

Null == [isNull |-> TRUE]

\* entries.reduce((max, current) => (current[1] > max[1] ? current : max))
RECURSIVE ReduceMax(_, _)
ReduceMax(entries, max) ==
    IF entries = <<>> THEN max
    ELSE ReduceMax(Tail(entries),
                   IF FracGreater(Head(entries).value, max.value)
                   THEN Head(entries) ELSE max)

findMostProductiveDay(dailyData) ==
    IF Len(dailyData) = 0 THEN Null
    ELSE LET maxEntry == ReduceMax(Tail(dailyData), Head(dailyData))
         IN  [isNull |-> FALSE, date |-> maxEntry.key, hours |-> maxEntry.value]

\* for (const lang of day.languages): the Map and the running total
RECURSIVE ItemLoop(_, _)
ItemLoop(items, acc) ==
    IF items = <<>> THEN acc
    ELSE LET item == Head(items)
             current == IF MapHas(acc.map, item.name)
                        THEN MapGet(acc.map, item.name) ELSE 0
         IN  ItemLoop(Tail(items),
                      [map |-> MapSet(acc.map, item.name, current + item.total_seconds),
                       totalSeconds |-> acc.totalSeconds + item.total_seconds])

\* for (const day of data.data) of an aggregate function; `field` is the
\* category array it reads
RECURSIVE CategoryLoop(_, _, _)
CategoryLoop(days, field, acc) ==
    IF days = <<>> THEN acc
    ELSE IF ~Head(days)[field].isArray
    THEN CategoryLoop(Tail(days), field, acc)
    ELSE CategoryLoop(Tail(days), field, ItemLoop(Head(days)[field].items, acc))

\* Mutant of InsertByHours: an entry goes before the entries it ties with
InsertByHoursBeforeTies(sorted, x) ==
    LET ahead == {i \in 1..Len(sorted) : FracGreater(sorted[i].hours, x.hours)}
    IN  SubSeq(sorted, 1, Cardinality(ahead)) \o <<x>>
            \o SubSeq(sorted, Cardinality(ahead) + 1, Len(sorted))

\* sort((a, b) => b.hours - a.hours) is stable: an entry goes behind every
\* entry that does not have fewer hours
RECURSIVE InsertByHours(_, _)
InsertByHours(sorted, x) ==
    IF sorted = <<>> THEN <<x>>
    ELSE IF FracGreater(x.hours, Head(sorted).hours) THEN <<x>> \o sorted
    ELSE <<Head(sorted)>> \o InsertByHours(Tail(sorted), x)

RECURSIVE SortByHours(_, _)
SortByHours(list, sorted) ==
    IF list = <<>> THEN sorted
    ELSE SortByHours(Tail(list), InsertByHours(sorted, Head(list)))

\* the body the three aggregate functions share
AggregateBy(data, field) ==
    IF InvalidData(data) THEN <<>>
    ELSE LET acc == CategoryLoop(data.data, field, [map |-> <<>>, totalSeconds |-> 0])
             list == [i \in 1..Len(acc.map) |->
                         [name |-> acc.map[i].key,
                          hours |-> Frac(acc.map[i].value, 3600),
                          percent |-> IF acc.totalSeconds > 0
                                      THEN Frac(acc.map[i].value * 100, acc.totalSeconds)
                                      ELSE Frac(0, 1)]]
         IN  SortByHours(list, <<>>)

aggregateLanguages(data) == AggregateBy(data, "languages")
aggregateEditors(data) == AggregateBy(data, "editors")
aggregateOperatingSystems(data) == AggregateBy(data, "operating_systems")

\* Mutant of TotalsLoop: days without activity are counted
RECURSIVE TotalsLoopCountingIdleDays(_, _)
TotalsLoopCountingIdleDays(days, acc) ==
    IF days = <<>> THEN acc
    ELSE LET day == Head(days)
         IN  IF HasSeconds(day)
             THEN TotalsLoopCountingIdleDays(Tail(days),
                      [totalSeconds |-> acc.totalSeconds + day.grand_total.total_seconds,
                       daysWithData |-> acc.daysWithData + 1])
             ELSE TotalsLoopCountingIdleDays(Tail(days), acc)

\* for (const day of data.data) of parseWakaTimeResponse
RECURSIVE TotalsLoop(_, _)
TotalsLoop(days, acc) ==
    IF days = <<>> THEN acc
    ELSE LET day == Head(days)
         IN  IF HasSeconds(day) /\ day.grand_total.total_seconds > 0
             THEN TotalsLoop(Tail(days),
                      [totalSeconds |-> acc.totalSeconds + day.grand_total.total_seconds,
                       daysWithData |-> acc.daysWithData + 1])
             ELSE TotalsLoop(Tail(days), acc)

parseWakaTimeResponse(data, projectName) ==
    IF InvalidData(data) THEN [threw |-> TRUE]
    ELSE LET sums == TotalsLoop(data.data, [totalSeconds |-> 0, daysWithData |-> 0])
             totalSeconds == sums.totalSeconds
             daysWithData == sums.daysWithData
             totalHours == totalSeconds \div 3600
             totalMinutes == (totalSeconds % 3600) \div 60
             dailyData == calculateDailyBreakdown(data)
         IN  [threw |-> FALSE,
              projectName |-> projectName,
              totalSeconds |-> totalSeconds,
              totalHours |-> totalHours,
              totalMinutes |-> totalMinutes,
              digitalTime |-> ToDec(totalHours) \o <<"h", " ">> \o ToDec(totalMinutes) \o <<"m">>,
              startDate |-> data.start,
              endDate |-> data.end,
              daysWithData |-> daysWithData,
              averageHoursPerDay |-> IF daysWithData > 0
                                     THEN Frac(totalSeconds, 3600 * daysWithData)
                                     ELSE Frac(0, 1),
              mostProductiveDay |-> findMostProductiveDay(dailyData),
              languages |-> aggregateLanguages(data),
              editors |-> aggregateEditors(data),
              operatingSystems |-> aggregateOperatingSystems(data)]

---------------------------------------------------------------------------
(* Browser storage *)

\* the keys of localStorage, as sequences of the parts they are joined from
STORAGE_KEY == <<"workHoursGUI_formState">>
WAKATIME_API_KEY == <<"wakatime_api_key">>
WAKATIME_FORM_STATE == <<"wakatime_form_state">>
WAKATIME_CACHE == <<"wakatime_cache">>

\* Storage.getItem: the stored text, or null for a key without an entry
getItem(store, key) == IF key \in DOMAIN store THEN store[key] ELSE Null

\* Storage.setItem
setItem(store, key, value) ==
    [k \in DOMAIN store \cup {key} |-> IF k = key THEN value ELSE store[k]]

\* Storage.removeItem
removeItem(store, key) == [k \in DOMAIN store \ {key} |-> store[k]]

\* A stored text is [text |-> s] for a string written as it is and
\* [json |-> v] for the text JSON.stringify makes of v.  The values the
\* program stringifies are strings, booleans, finite numbers, arrays and
\* plain objects of these, which JSON.parse gives back as they were.
JSONstringify(value) == [json |-> value]

\* JSON.parse: throws a SyntaxError for a text that is not JSON
JSONparse(saved) ==
    IF "json" \in DOMAIN saved THEN Returned(saved.json) ELSE Threw

\* { ...a, ...b }: the properties of b over those of a
Spread(a, b) ==
    [k \in DOMAIN a \cup DOMAIN b |-> IF k \in DOMAIN b THEN b[k] ELSE a[k]]

\* the first days of 2024-11, 2024-12 and 2025-01, the months around the
\* calendar window
MonthStarts == <<20028, 20058, 20089>>

\* the index in MonthStarts of the month `new Date()` falls in
CurrentMonth == IF today < MonthStarts[3] THEN 2 ELSE 3

\* the 24th of last month and the 25th of this month
getDynamicDates ==
    [billingStart |-> MonthStarts[CurrentMonth - 1] + 23,
     billingEnd |-> MonthStarts[CurrentMonth] + 24]

getDefaultState ==
    [whTotal |-> <<"1", "0", "0", " ", "h", "r", "s", " ", "0", " ", "m", "i", "n", "s">>,
     whCompleted |-> <<"0", " ", "h", "r", "s", " ", "0", " ", "m", "i", "n", "s">>,
     whStart |-> getDynamicDates.billingStart,
     whEnd |-> getDynamicDates.billingEnd,
     whSun |-> FALSE,
     whSat |-> FALSE,
     whExcludeToday |-> FALSE,
     hourlyRate |-> <<"2", "9", "0", "0">>,
     csvRequired |-> "",
     csvHourlyRate |-> "0",
     tsInput |-> "",
     tsOutput |-> "Total time will appear here"]

loadFormState(store) ==
    LET saved == getItem(store, STORAGE_KEY)
        defaultState == getDefaultState
    IN  IF saved = Null THEN defaultState
        ELSE LET parsed == JSONparse(saved)
             IN  IF parsed.threw THEN defaultState
                 ELSE Spread(defaultState, parsed.value)

\* Mutant of saveFormState: the given fields replace the stored object
saveFormStateReplacing(store, state) ==
    setItem(store, STORAGE_KEY, JSONstringify(state))

\* the storage after saveFormState(state)
saveFormState(store, state) ==
    LET existing == loadFormState(store)
        merged == Spread(existing, state)
    IN  setItem(store, STORAGE_KEY, JSONstringify(merged))

hasSavedData(store) == getItem(store, STORAGE_KEY) # Null

\* ttlMinutes = 5 of saveToCache
DefaultTtl == 5

\* the key of a cache entry: `${WAKATIME_CACHE}_${key}`
CacheKey(key) == WAKATIME_CACHE \o <<"_">> \o key

\* Mutant of saveToCache: the ttl is taken as seconds
saveToCacheSeconds(store, key, data, ttlMinutes) ==
    LET expiry == now + ttlMinutes * 1000
        entry == [data |-> data, expiry |-> expiry]
    IN  setItem(store, CacheKey(key), JSONstringify(entry))

\* the storage after saveToCache(key, data, ttlMinutes)
saveToCache(store, key, data, ttlMinutes) ==
    LET expiry == now + ttlMinutes * 60 * 1000
        entry == [data |-> data, expiry |-> expiry]
    IN  setItem(store, CacheKey(key), JSONstringify(entry))

\* loadFromCache(key): what it returns and the storage it leaves
loadFromCache(store, key) ==
    LET saved == getItem(store, CacheKey(key))
    IN  IF saved = Null THEN [value |-> Null, store |-> store]
        ELSE LET entry == JSONparse(saved)
             IN  IF entry.threw THEN [value |-> Null, store |-> store]
                 ELSE IF now > entry.value.expiry
                      THEN [value |-> Null,
                            store |-> removeItem(store, CacheKey(key))]
                      ELSE [value |-> entry.value.data, store |-> store]

---------------------------------------------------------------------------
(* CSV import *)

\* not-a-number, in the [num, den] form of the numbers
NaN == Frac(0, 0)

\* 10^n
RECURSIVE Pow10(_)
Pow10(n) == IF n = 0 THEN 1 ELSE 10 * Pow10(n - 1)

\* Number(text) for a cell of the sheet: the empty text is 0, a decimal
\* numeral with an optional sign and fraction is its value, and any other
\* text is NaN
Number(text) ==
    IF text = <<>> THEN Frac(0, 1)
    ELSE LET negative == Head(text) = "-"
             digits == IF negative THEN Tail(text) ELSE text
             i == SkipDigits(digits, 1)
             whole == SubSeq(digits, 1, i - 1)
             sign == IF negative THEN -1 ELSE 1
         IN  IF whole = <<>> THEN NaN
             ELSE IF i > Len(digits) THEN Frac(sign * parseInt(whole), 1)
             ELSE LET fraction == SubSeq(digits, i + 1, Len(digits))
                  IN  IF digits[i] # "." \/ fraction = <<>>
                         \/ SkipDigits(fraction, 1) <= Len(fraction)
                      THEN NaN
                      ELSE Frac(sign * (parseInt(whole) * Pow10(Len(fraction))
                                            + parseInt(fraction)),
                                Pow10(Len(fraction)))

\* x || 0 for a number: NaN and 0 are falsy
OrZero(q) == IF q.den = 0 \/ q.num = 0 THEN Frac(0, 1) ELSE q

\* Math.floor(x) || 0 for a number that is not NaN
FloorOrZero(q) == q.num \div q.den

\* a cell that is absent from the row (undefined)
NoCell == [form |-> "undefined"]

\* row[a] ?? row[b] ?? row[c] ?? otherwise
Coalesce(row, names, otherwise) ==
    IF \E i \in 1..Len(names) : names[i] \in DOMAIN row
    THEN row[names[CHOOSE i \in 1..Len(names) :
                    /\ names[i] \in DOMAIN row
                    /\ \A j \in 1..(i - 1) : names[j] \notin DOMAIN row]]
    ELSE otherwise

\* A date cell is [form, day]: form "iso" is YYYY-MM-DD, which new Date
\* reads as midnight UTC of that day; form "slash" is M/D/YYYY, which it
\* reads as midnight local time; form "text" is a text it cannot read (an
\* Invalid Date) and form "empty" is the empty text.
\* !dateVal
Falsy(dateVal) == dateVal.form \in {"undefined", "empty"}

\* Number.isNaN(new Date(String(dateVal)).getTime())
InvalidDate(dateVal) == dateVal.form = "text"

\* dObj.toISOString().slice(0, 10): the UTC day of the instant; midnight
\* local time is in the day before in a zone ahead of UTC.  Days stand
\* for their YYYY-MM-DD texts, which are ordered as the days are.
IsoKey(dateVal, east) ==
    IF dateVal.form = "slash" /\ east THEN dateVal.day - 1 ELSE dateVal.day

\* for (const row of data); of the rows of a group hrs and mins are kept
RECURSIVE RowLoop(_, _, _)
RowLoop(data, east, grouped) ==
    IF data = <<>> THEN grouped
    ELSE LET row == Head(data)
             dateVal == Coalesce(row, <<"Date", "date", "DATE">>, NoCell)
             hrs == OrZero(Number(Coalesce(row, <<"HRS", "Hrs", "hrs">>, <<"0">>)))
             mins == OrZero(Number(Coalesce(row, <<"MINS", "Mins", "mins">>, <<"0">>)))
         IN  IF Falsy(dateVal) \/ InvalidDate(dateVal)
             THEN RowLoop(Tail(data), east, grouped)
             ELSE LET key == IsoKey(dateVal, east)
                      minutes == FloorOrZero(hrs) * 60 + FloorOrZero(mins)
                      group == IF MapHas(grouped, key) THEN MapGet(grouped, key)
                               ELSE [date |-> key, minutes |-> 0, rows |-> <<>>]
                  IN  RowLoop(Tail(data), east,
                          MapSet(grouped, key,
                              [date |-> key,
                               minutes |-> group.minutes + minutes,
                               rows |-> Append(group.rows,
                                            [hrs |-> hrs, mins |-> mins])]))

\* one step of the sort by a.date.localeCompare(b.date)
RECURSIVE InsertByDate(_, _)
InsertByDate(sorted, x) ==
    IF sorted = <<>> THEN <<x>>
    ELSE IF x.date < Head(sorted).date THEN <<x>> \o sorted
    ELSE <<Head(sorted)>> \o InsertByDate(Tail(sorted), x)

RECURSIVE SortByDate(_, _)
SortByDate(list, sorted) ==
    IF list = <<>> THEN sorted
    ELSE SortByDate(Tail(list), InsertByDate(sorted, Head(list)))

\* parseCSV, from the rows Papa.parse returns
parseCSV(data, east) ==
    LET grouped == RowLoop(data, east, <<>>)
        sortedRows == SortByDate([i \in 1..Len(grouped) |-> grouped[i].value], <<>>)
    IN  [actualsByDate |->
             [key \in {sortedRows[i].date : i \in 1..Len(sortedRows)} |->
                 (CHOOSE r \in {sortedRows[i] : i \in 1..Len(sortedRows)} :
                      r.date = key).minutes],
         parsedRows |-> data,
         grouped |-> sortedRows]

---------------------------------------------------------------------------
(* Storage of the WakaTime form *)

\* the storage after saveWakaTimeApiKey(apiKey): the key is stored as it is
saveWakaTimeApiKey(store, apiKey) ==
    setItem(store, WAKATIME_API_KEY, [text |-> apiKey])

loadWakaTimeApiKey(store) == getItem(store, WAKATIME_API_KEY)

\* the storage after clearWakaTimeApiKey()
clearWakaTimeApiKey(store) == removeItem(store, WAKATIME_API_KEY)

\* the form state loadWakaTimeFormState returns without a readable entry
DefaultWakaTimeFormState ==
    [apiKey |-> "",
     projectName |-> "",
     startDate |-> getDynamicDates.billingStart,
     endDate |-> getDynamicDates.billingEnd,
     rememberApiKey |-> TRUE,
     hourlyRate |-> "0"]

\* loadWakaTimeApiKey() || ''
StoredKeyOrEmpty(store) ==
    LET saved == loadWakaTimeApiKey(store)
    IN  IF saved = Null THEN "" ELSE saved.text

\* parsed.apiKey = loadWakaTimeApiKey() || '' when parsed.rememberApiKey
WithStoredKey(store, parsed) ==
    IF "rememberApiKey" \in DOMAIN parsed /\ parsed.rememberApiKey
    THEN Spread(parsed, [apiKey |-> StoredKeyOrEmpty(store)])
    ELSE parsed

\* parsed.hourlyRate = '0' when !parsed.hourlyRate
WithHourlyRate(parsed) ==
    IF "hourlyRate" \notin DOMAIN parsed \/ parsed.hourlyRate = ""
    THEN Spread(parsed, [hourlyRate |-> "0"])
    ELSE parsed

loadWakaTimeFormState(store) ==
    LET saved == getItem(store, WAKATIME_FORM_STATE)
    IN  IF saved = Null THEN DefaultWakaTimeFormState
        ELSE LET parsed == JSONparse(saved)
             IN  IF parsed.threw THEN DefaultWakaTimeFormState
                 ELSE WithHourlyRate(WithStoredKey(store, parsed.value))

\* the storage after saveWakaTimeFormState(state)
saveWakaTimeFormState(store, state) ==
    LET existing == loadWakaTimeFormState(store)
        merged == Spread(existing, state)
    IN  setItem(store, WAKATIME_FORM_STATE, JSONstringify(merged))

---------------------------------------------------------------------------
(* Inputs of the codec *)

Int1(n) == [num |-> n, den |-> 1]

FormatInputs ==
    [num : (-MaxMinutes)..MaxMinutes, den : 1..MaxDen]
        \cup {Int1(6000), Int1(9600), Int1(-6000)}

HourVals == (0..MaxHrs) \cup {160}
MinVals == (0..MaxMins) \cup {59, 60, 75}
Gaps == {<<>>, <<" ">>}

HoursParts ==
    {<<>>} \cup {ToDec(h) \o g \o u : h \in HourVals, g \in Gaps,
                 u \in {<<"h", "r", "s">>, <<"h", "r">>, <<"H", "R", "S">>}}

MinsParts ==
    {<<>>} \cup {ToDec(m) \o g \o u : m \in MinVals, g \in Gaps,
                 u \in {<<"m", "i", "n", "s">>, <<"m", "i", "n">>, <<"M", "i", "n", "s">>}}

Prefixes == {<<>>, <<" ">>, <<"a", "b", "c", " ">>, <<"-">>}
Suffixes == {<<>>, <<" ", "x">>}

Garbage == <<"g", "a", "r", "b", "a", "g", "e">>

ParseInputs ==
    {p \o h \o g \o m \o x : p \in Prefixes, h \in HoursParts, g \in Gaps,
                             m \in MinsParts, x \in Suffixes}
        \cup {Garbage, <<"1", "6", "0", ":", "0", "0">>}

SampleLines ==
    { <<"3", " ", "h", "r", "s", " ", "0", " ", "m", "i", "n", "s">>,
      Garbage,
      <<"1", " ", "h", "r", "s", " ", "3", "0", " ", "m", "i", "n", "s">>,
      <<>>,
      <<"4", "5", " ", "m", "i", "n", "s">>,
      <<"2", " ", "h", "r", "s", " ", "j", "u", "n", "k">>,
      <<"a", "b", "c", " ", "5", " ", "h", "r", "s">>,
      <<"1", " ", "h", "r", "s", " ", "7", "5", " ", "m", "i", "n", "s">> }

\* lines joined with "\n"
RECURSIVE JoinLines(_)
JoinLines(ls) ==
    IF ls = <<>> THEN <<>>
    ELSE IF Len(ls) = 1 THEN ls[1]
    ELSE ls[1] \o <<"\n">> \o JoinLines(Tail(ls))

LineLists == UNION {[1..n -> SampleLines] : n \in 0..MaxLines}

---------------------------------------------------------------------------
(* The state machine *)

\* the calendar window: 2024-12-31 and the MaxSpan days after it
FirstDay == 20088
Days == FirstDay..(FirstDay + MaxSpan)

TotalArgs ==
    { <<"1", "0", "0", " ", "h", "r", "s", " ", "0", " ", "m", "i", "n", "s">>,
      <<"1", " ", "h", "r", "s", " ", "3", "0", " ", "m", "i", "n", "s">> }

CompletedArgs ==
    { <<>>, <<"2", " ", "h", "r", "s", " ", "0", " ", "m", "i", "n", "s">> }

Rates == 0..MaxRate

\* the empty string of a date field
NoDate == 0

\* the form state of a first visit: loadFormState without a saved state,
\* with a billing period inside the calendar window
DefaultForm ==
    [totalHours |-> <<"1", "0", "0", " ", "h", "r", "s", " ", "0", " ", "m", "i", "n", "s">>,
     completedHours |-> <<"0", " ", "h", "r", "s", " ", "0", " ", "m", "i", "n", "s">>,
     hourlyRate |-> <<"2", "9", "0", "0">>,
     billingStart |-> FirstDay + 1,
     billingEnd |-> FirstDay + 7,
     skipSunday |-> FALSE,
     skipSaturday |-> FALSE,
     excludeToday |-> FALSE]

\* an object without keys
EmptyRecord == [key \in {} |-> 0]

\* the module-specific state of App after useState; resultFrom is a history
\* field: the source whose handler stored `result` last
InitialApp ==
    [activeDataSource |-> "null",
     result |-> Null,
     resultFrom |-> "null",
     actualsByDate |-> EmptyRecord,
     parsedRows |-> <<>>,
     wakaTimeResult |-> Null,
     wakaTimeDailyData |-> <<>>]

\* a component that is not rendered
Unmounted == [mounted |-> FALSE]

\* arg and ret are records whose fields are named after the operation
NoValue == [none |-> TRUE]

Init ==
    /\ today = FirstDay
    /\ tzWest \in BOOLEAN
    /\ call = "idle"
    /\ arg = NoValue
    /\ ret = NoValue
    /\ prev = NoValue
    /\ form = DefaultForm
    /\ app = InitialApp
    /\ now = 0
    /\ localStorage = EmptyRecord
    /\ calculator = Unmounted
    /\ tracker = Unmounted
    /\ network = <<>>

FormatMinutesCall ==
    /\ call = "idle"
    /\ \E q \in FormatInputs :
           /\ call' = "formatMinutes"
           /\ arg' = [totalMinutes |-> q]
           /\ ret' = [text |-> formatMinutes(q)]
           /\ UNCHANGED <<browser, today, tzWest, prev, form, app>>

ParseTimeCall ==
    /\ call = "idle"
    /\ \E s \in ParseInputs :
           /\ call' = "parseTime"
           /\ arg' = [timeString |-> s]
           /\ ret' = parseTime(s)
           /\ UNCHANGED <<browser, today, tzWest, prev, form, app>>

ParseTimeStrictCall ==
    /\ call = "idle"
    /\ \E s \in ParseInputs :
           /\ call' = "parseTimeStrict"
           /\ arg' = [timeString |-> s]
           /\ ret' = parseTimeStrict(s)
           /\ UNCHANGED <<browser, today, tzWest, prev, form, app>>

SumTimeStringsCall ==
    /\ call = "idle"
    /\ \E ls \in LineLists :
           /\ call' = "sumTimeStrings"
           /\ arg' = [lines |-> ls, text |-> JoinLines(ls)]
           /\ ret' = sumTimeStrings(JoinLines(ls))
           /\ UNCHANGED <<browser, today, tzWest, prev, form, app>>

CodecNext ==
    \/ FormatMinutesCall
    \/ ParseTimeCall
    \/ ParseTimeStrictCall
    \/ SumTimeStringsCall

SpecCodec == Init /\ [][CodecNext]_vars

\* the calendar day changes between calls
Tick ==
    /\ call = "idle"
    /\ today < FirstDay + MaxSpan
    /\ today' = today + 1
    /\ UNCHANGED <<browser, tzWest, call, arg, ret, prev, form, app>>

CalcWorkHoursCall ==
    /\ call = "idle"
    /\ \E totalStr \in TotalArgs, completedStr \in CompletedArgs,
          startStr \in Days, endStr \in Days,
          skipSun \in BOOLEAN, skipSat \in BOOLEAN, excludeToday \in BOOLEAN,
          hourlyRate \in Rates :
           /\ call' = "calcWorkHours"
           /\ arg' = [totalStr |-> totalStr, completedStr |-> completedStr,
                      startStr |-> startStr, endStr |-> endStr,
                      skipSun |-> skipSun, skipSat |-> skipSat,
                      excludeToday |-> excludeToday, hourlyRate |-> hourlyRate]
           /\ ret' = calcWorkHours(totalStr, completedStr, startStr, endStr,
                                   skipSun, skipSat, excludeToday, hourlyRate)
           /\ UNCHANGED <<browser, today, tzWest, prev, form, app>>

AllocNext ==
    \/ Tick
    \/ CalcWorkHoursCall

SpecAlloc == Init /\ [][AllocNext]_vars

\* the caller of calcWorkHours lets time pass and calls it once more with
\* the same arguments, on the same day or on one of the days after it
LastDay == FirstDay + MaxSpan

RepeatedArgs ==
    [totalStr : {<<"1", " ", "h", "r", "s", " ", "3", "0", " ", "m", "i", "n", "s">>},
     completedStr : {<<>>}, startStr : Days, endStr : Days,
     skipSun : BOOLEAN, skipSat : BOOLEAN, excludeToday : BOOLEAN,
     hourlyRate : {MaxRate}]

Elapse ==
    /\ call = "calcWorkHours"
    /\ arg \in RepeatedArgs
    /\ \E later \in today..LastDay :
           /\ today' = later
           /\ prev' = [today |-> today, ret |-> ret]
           /\ call' = "elapsed"
           /\ UNCHANGED <<browser, tzWest, arg, ret, form, app>>

CalcWorkHoursAgain ==
    /\ call = "elapsed"
    /\ call' = "calcWorkHoursAgain"
    /\ ret' = calcWorkHours(arg.totalStr, arg.completedStr, arg.startStr,
                            arg.endStr, arg.skipSun, arg.skipSat,
                            arg.excludeToday, arg.hourlyRate)
    /\ UNCHANGED <<browser, today, tzWest, arg, prev, form, app>>

RepeatNext ==
    \/ AllocNext
    \/ Elapse
    \/ CalcWorkHoursAgain

SpecRepeat == Init /\ [][RepeatNext]_vars

\* hours compared by calculateDiscrepancy; 20/21, 100/104 and 100/105 lie
\* around the 5% threshold
Amounts == (0..MaxAmount) \cup {95, 96, 100, 104, 105}

DateKeys == {"2025-01-01", "2025-01-02", "2025-01-03"}

\* tracked hours per date, in half hours, and manual minutes per date
WakaHours == {Frac(n, 2) : n \in 0..MaxHalfHours} \cup {Frac(5, 2)}
ManualMinutes == {30 * n : n \in 0..MaxHalfHours}

PartialMaps(keys, values) == UNION {[ks -> values] : ks \in SUBSET keys}

CalculateDiscrepancyCall ==
    /\ call = "idle"
    /\ \E manual \in Amounts, wakatime \in Amounts :
           /\ call' = "calculateDiscrepancy"
           /\ arg' = [manual |-> manual, wakatime |-> wakatime]
           /\ ret' = calculateDiscrepancy(manual, wakatime)
           /\ UNCHANGED <<browser, today, tzWest, prev, form, app>>

MergeWakaTimeWithManualCall ==
    /\ call = "idle"
    /\ \E wakaTimeData \in PartialMaps(DateKeys, WakaHours),
          manualData \in PartialMaps(DateKeys, ManualMinutes) :
           /\ call' = "mergeWakaTimeWithManual"
           /\ arg' = [wakaTimeData |-> wakaTimeData, manualData |-> manualData]
           /\ ret' = [merged |-> mergeWakaTimeWithManual(wakaTimeData, manualData)]
           /\ UNCHANGED <<browser, today, tzWest, prev, form, app>>

MergeNext ==
    \/ CalculateDiscrepancyCall
    \/ MergeWakaTimeWithManualCall

SpecMerge == Init /\ [][MergeNext]_vars

\* day records: the range fields ("" for an absent one), the grand total
\* (isNumber is false when grand_total or a numeric total_seconds is missing)
\* and the three category arrays
Ranges ==
    { [date |-> "2025-01-01", start |-> ""],
      [date |-> "2025-01-02", start |-> "2025-01-02T00:00:00Z"],
      [date |-> "", start |-> "2025-01-03T00:00:00Z"],
      [date |-> "", start |-> ""] }

GrandTotals ==
    {[isNumber |-> TRUE, total_seconds |-> s] : s \in {0, 1800, 3600}}
        \cup {[isNumber |-> FALSE, total_seconds |-> 0]}

NoArray == [isArray |-> FALSE, items |-> <<>>]
Items(list) == [isArray |-> TRUE, items |-> list]
Item(name, seconds) == [name |-> name, total_seconds |-> seconds]

CategoryArrays ==
    { NoArray,
      Items(<<>>),
      Items(<<Item("TypeScript", 60)>>),
      Items(<<Item("typescript", 60), Item("TypeScript", 30)>>),
      Items(<<Item("Go", 30), Item("TypeScript", 30)>>),
      Items(<<Item("TypeScript", 30), Item("Go", 60)>>),
      Items(<<Item("Go", 0)>>),
      Items(<<Item("Go", 30), Item("Go", 30)>>) }

\* records that differ in date and total, and records that differ in one
\* category array
TotalRecords ==
    {[range |-> r, grand_total |-> g, languages |-> NoArray, editors |-> NoArray,
      operating_systems |-> NoArray] : r \in Ranges, g \in GrandTotals}

CategoryRecords(field) ==
    {[[range |-> [date |-> "2025-01-01", start |-> ""],
       grand_total |-> [isNumber |-> TRUE, total_seconds |-> 3600],
       languages |-> NoArray, editors |-> NoArray,
       operating_systems |-> NoArray] EXCEPT ![field] = c] : c \in CategoryArrays}

Lists(records) == UNION {[1..n -> records] : n \in 0..MaxRecords}

Summary(days) ==
    [isArray |-> TRUE, data |-> days, start |-> "2025-01-01", end |-> "2025-01-03"]

\* a response without the data array
NoSummary == [isArray |-> FALSE, data |-> <<>>, start |-> "", end |-> ""]

DayRecords(family) ==
    IF family = "totals" THEN TotalRecords ELSE CategoryRecords(family)

CalculateDailyBreakdownCall ==
    /\ call = "idle"
    /\ \E days \in Lists(TotalRecords) :
           /\ call' = "calculateDailyBreakdown"
           /\ arg' = [data |-> Summary(days)]
           /\ ret' = [dailyData |-> calculateDailyBreakdown(Summary(days))]
           /\ UNCHANGED <<browser, today, tzWest, prev, form, app>>

ParseWakaTimeResponseCall ==
    /\ call = "idle"
    /\ \E family \in {"totals", "languages", "editors", "operating_systems"} :
       \E days \in Lists(DayRecords(family)) :
       \E data \in (IF days = <<>> THEN {Summary(days), NoSummary} ELSE {Summary(days)}) :
           /\ call' = "parseWakaTimeResponse"
           /\ arg' = [data |-> data, projectName |-> "demo"]
           /\ ret' = parseWakaTimeResponse(data, "demo")
           /\ UNCHANGED <<browser, today, tzWest, prev, form, app>>

WakaNext ==
    \/ CalculateDailyBreakdownCall
    \/ ParseWakaTimeResponseCall

SpecWaka == Init /\ [][WakaNext]_vars

\* App: values the input fields are set to ("" and one entry each)
TotalHoursInputs == {<<>>, DefaultForm.totalHours}
CompletedHoursInputs == {<<>>, <<"2", " ", "h", "r", "s", " ", "0", " ", "m", "i", "n", "s">>}
HourlyRateInputs == {<<>>, DefaultForm.hourlyRate}
BillingStartInputs == {NoDate, DefaultForm.billingStart}
BillingEndInputs == {NoDate, DefaultForm.billingEnd}

\* App: what the modules hand to the handlers
\* (of a WorkHoursResult the totals are enough: App stores it unread)
SampleResults ==
    {[threw |-> FALSE, total |-> 6000, completed |-> c, remaining |-> 6000 - c] :
         c \in {0, 120}}

SampleActuals == {EmptyRecord, [date \in {"2025-01-01"} |-> 90]}

SampleRows ==
    {<<>>, <<[Date |-> "2025-01-01", Time |-> "1 hrs 30 mins"]>>}

SampleDays ==
    {<<>>,
     <<[range |-> [date |-> "2025-01-01", start |-> ""],
        grand_total |-> [isNumber |-> TRUE, total_seconds |-> 3600],
        languages |-> Items(<<Item("TypeScript", 3600)>>),
        editors |-> NoArray,
        operating_systems |-> NoArray]>>}

\* the fields App passes to saveFormState
SharedState(shared) ==
    [whTotal |-> shared.totalHours,
     whCompleted |-> shared.completedHours,
     hourlyRate |-> shared.hourlyRate,
     whStart |-> shared.billingStart,
     whEnd |-> shared.billingEnd,
     whSun |-> shared.skipSunday,
     whSat |-> shared.skipSaturday,
     whExcludeToday |-> shared.excludeToday]

\* the storage after the effect that saves the shared state: it runs when
\* one of the values has changed
SaveEffect(shared) ==
    IF shared = form THEN localStorage
    ELSE saveFormState(localStorage, SharedState(shared))

\* events of App are handled one after the other once it is mounted
Mounted == call \in {"idle", "App"}

SetTotalHours ==
    /\ Mounted
    /\ \E value \in TotalHoursInputs :
           form' = [form EXCEPT !.totalHours = value]
    /\ call' = "App"
    /\ localStorage' = SaveEffect(form')
    /\ UNCHANGED <<today, tzWest, arg, ret, prev, app, now, calculator, tracker, network>>

SetCompletedHours ==
    /\ Mounted
    /\ \E value \in CompletedHoursInputs :
           form' = [form EXCEPT !.completedHours = value]
    /\ call' = "App"
    /\ localStorage' = SaveEffect(form')
    /\ UNCHANGED <<today, tzWest, arg, ret, prev, app, now, calculator, tracker, network>>

SetHourlyRate ==
    /\ Mounted
    /\ \E value \in HourlyRateInputs :
           form' = [form EXCEPT !.hourlyRate = value]
    /\ call' = "App"
    /\ localStorage' = SaveEffect(form')
    /\ UNCHANGED <<today, tzWest, arg, ret, prev, app, now, calculator, tracker, network>>

SetBillingStart ==
    /\ Mounted
    /\ \E value \in BillingStartInputs :
           form' = [form EXCEPT !.billingStart = value]
    /\ call' = "App"
    /\ localStorage' = SaveEffect(form')
    /\ UNCHANGED <<today, tzWest, arg, ret, prev, app, now, calculator, tracker, network>>

SetBillingEnd ==
    /\ Mounted
    /\ \E value \in BillingEndInputs :
           form' = [form EXCEPT !.billingEnd = value]
    /\ call' = "App"
    /\ localStorage' = SaveEffect(form')
    /\ UNCHANGED <<today, tzWest, arg, ret, prev, app, now, calculator, tracker, network>>

SetSkipSunday ==
    /\ Mounted
    /\ \E value \in BOOLEAN :
           form' = [form EXCEPT !.skipSunday = value]
    /\ call' = "App"
    /\ localStorage' = SaveEffect(form')
    /\ UNCHANGED <<today, tzWest, arg, ret, prev, app, now, calculator, tracker, network>>

SetSkipSaturday ==
    /\ Mounted
    /\ \E value \in BOOLEAN :
           form' = [form EXCEPT !.skipSaturday = value]
    /\ call' = "App"
    /\ localStorage' = SaveEffect(form')
    /\ UNCHANGED <<today, tzWest, arg, ret, prev, app, now, calculator, tracker, network>>

SetExcludeToday ==
    /\ Mounted
    /\ \E value \in BOOLEAN :
           form' = [form EXCEPT !.excludeToday = value]
    /\ call' = "App"
    /\ localStorage' = SaveEffect(form')
    /\ UNCHANGED <<today, tzWest, arg, ret, prev, app, now, calculator, tracker, network>>

\* the state of App after handleCalculate(newResult)
Calculated(newResult) ==
    [app EXCEPT !.result = newResult,
                !.resultFrom = "calculator",
                !.activeDataSource = "calculator",
                !.actualsByDate = EmptyRecord,
                !.parsedRows = <<>>,
                !.wakaTimeResult = Null,
                !.wakaTimeDailyData = <<>>]

handleCalculate ==
    /\ Mounted
    /\ \E newResult \in SampleResults :
           app' = Calculated(newResult)
    /\ call' = "App"
    /\ UNCHANGED <<browser, today, tzWest, arg, ret, prev, form>>

handleCSVImport ==
    /\ Mounted
    /\ \E newResult \in SampleResults, newActualsByDate \in SampleActuals,
          newParsedRows \in SampleRows :
           app' = [app EXCEPT !.result = newResult,
                              !.resultFrom = "csv",
                              !.actualsByDate = newActualsByDate,
                              !.parsedRows = newParsedRows,
                              !.activeDataSource = "csv",
                              !.wakaTimeResult = Null,
                              !.wakaTimeDailyData = <<>>]
    /\ call' = "App"
    /\ UNCHANGED <<browser, today, tzWest, arg, ret, prev, form>>

\* parseFloat(hourlyRate) || 0 for a string of digits
RateOrZero(hourlyRate) == IF IsNaN(hourlyRate) THEN 0 ELSE parseInt(hourlyRate)

\* totalHours && completedHours && billingStart && billingEnd of the shared
\* state a render of App has given to handleWakaTimeData
SharedComplete(shared) ==
    /\ shared.totalHours # <<>>
    /\ shared.completedHours # <<>>
    /\ shared.billingStart # NoDate
    /\ shared.billingEnd # NoDate

FormComplete == SharedComplete(form)

\* what the automatic calculation of handleWakaTimeData gives: the value
\* of calcWorkHours over the shared state, or nothing for incomplete state
AutoCalculate(shared) ==
    IF SharedComplete(shared)
    THEN {calcWorkHours(shared.totalHours, shared.completedHours,
                        shared.billingStart, shared.billingEnd,
                        shared.skipSunday, shared.skipSaturday,
                        shared.excludeToday, RateOrZero(shared.hourlyRate))}
    ELSE {Null}

\* the state of App after handleWakaTimeData(newResult, dailyData) of the
\* render with the shared state `shared`
WakaTimeData(shared, newResult, dailyData, calculatorResult) ==
    [app EXCEPT
        !.wakaTimeResult = newResult,
        !.wakaTimeDailyData = dailyData,
        !.activeDataSource = "wakatime",
        !.actualsByDate = EmptyRecord,
        !.parsedRows = <<>>,
        !.result = IF ~SharedComplete(shared) THEN @
                   ELSE IF calculatorResult.threw THEN Null
                   ELSE calculatorResult,
        !.resultFrom = IF SharedComplete(shared) THEN "wakatime" ELSE @]

handleWakaTimeData ==
    /\ Mounted
    /\ \E days \in SampleDays :
       \E calculatorResult \in AutoCalculate(form) :
           app' = WakaTimeData(form, parseWakaTimeResponse(Summary(days), "demo"),
                               calculateDailyBreakdown(Summary(days)),
                               calculatorResult)
    /\ call' = "App"
    /\ UNCHANGED <<browser, today, tzWest, arg, ret, prev, form>>

AppNext ==
    \/ SetTotalHours
    \/ SetCompletedHours
    \/ SetHourlyRate
    \/ SetBillingStart
    \/ SetBillingEnd
    \/ SetSkipSunday
    \/ SetSkipSaturday
    \/ SetExcludeToday
    \/ handleCalculate
    \/ handleCSVImport
    \/ handleWakaTimeData

SpecApp == Init /\ [][AppNext]_vars

\* the five minutes of the default ttl, in milliseconds
Period == DefaultTtl * 60 * 1000

\* the instant Date.now() reads moves on, by a millisecond or by a period;
\* it is a whole number of periods or one millisecond more
Pass ==
    /\ \E step \in {1, Period} :
           /\ (now + step) \div Period <= MaxClock
           /\ (now + step) % Period <= 1
           /\ now' = now + step
    /\ UNCHANGED <<today, tzWest, call, arg, ret, prev, form, app,
                   localStorage, calculator, tracker, network>>

\* keys and data of cache entries: the project suggestions and the data of
\* a project and a period
CacheKeys ==
    { <<"projects">>, <<"demo">> \o <<"_">> \o ToDec(FirstDay) \o <<"_">> \o ToDec(FirstDay + 1) }

CacheData == {[names |-> <<>>], [names |-> <<"demo">>]}

Ttls == {0, 2 * DefaultTtl}

\* history: the last saveToCache of each key, and the number of saves
Saves == IF prev = NoValue THEN EmptyRecord ELSE prev.saves
SaveCount == IF prev = NoValue THEN 0 ELSE prev.count

Caching == call \in {"idle", "saveToCache", "loadFromCache"}

SaveToCacheCall ==
    /\ Caching
    /\ SaveCount < MaxSaves
    /\ \E key \in CacheKeys, data \in CacheData, ttlMinutes \in Ttls \cup {DefaultTtl} :
           /\ call' = "saveToCache"
           /\ arg' = [key |-> key, data |-> data, ttlMinutes |-> ttlMinutes]
           /\ ret' = NoValue
           /\ localStorage' = saveToCache(localStorage, key, data, ttlMinutes)
           /\ prev' = [saves |-> setItem(Saves, key,
                                     [data |-> data, ttlMinutes |-> ttlMinutes,
                                      at |-> now]),
                     count |-> SaveCount + 1]
    /\ UNCHANGED <<today, tzWest, form, app, now, calculator, tracker, network>>

LoadFromCacheCall ==
    /\ Caching
    /\ \E key \in CacheKeys :
           /\ call' = "loadFromCache"
           /\ arg' = [key |-> key, now |-> now]
           /\ ret' = [value |-> loadFromCache(localStorage, key).value]
           /\ localStorage' = loadFromCache(localStorage, key).store
    /\ UNCHANGED <<today, tzWest, prev, form, app, now, calculator, tracker, network>>

CacheNext ==
    \/ Pass
    \/ SaveToCacheCall
    \/ LoadFromCacheCall

SpecCache == Init /\ [][CacheNext]_vars

\* what the components pass to saveFormState: App its eight shared fields,
\* TimeSumCalculator its two, CSVImport its one
PartialStates ==
    {[whTotal |-> t, whCompleted |-> getDefaultState.whCompleted,
      hourlyRate |-> getDefaultState.hourlyRate,
      whStart |-> FirstDay + 1, whEnd |-> FirstDay + 7,
      whSun |-> sun, whSat |-> FALSE, whExcludeToday |-> FALSE] :
         t \in TotalArgs, sun \in BOOLEAN}
    \cup {[tsInput |-> "1 hrs 30 mins", tsOutput |-> o] :
         o \in {"Total time will appear here", "Total: 1 hrs 30 mins"}}
    \cup {[csvRequired |-> r] : r \in {"", "160 hrs 0 mins"}}

\* the object an earlier version of the program stored: all fields but
\* csvHourlyRate
EarlierVersionState ==
    [k \in DOMAIN getDefaultState \ {"csvHourlyRate"} |->
        IF k = "tsInput" THEN "2 hrs 0 mins" ELSE getDefaultState[k]]

\* texts other code leaves under STORAGE_KEY
ForeignTexts == {[text |-> "{whTotal:"], JSONstringify(EarlierVersionState)}

\* history: the fields given to saveFormState so far with their last values
SavedFields == IF prev = NoValue THEN EmptyRecord ELSE prev.saved

FormStoring == call \in {"idle", "saveFormState", "loadFormState", "setItem", "removeItem"}

SaveFormStateCall ==
    /\ FormStoring
    /\ \E state \in PartialStates :
           /\ call' = "saveFormState"
           /\ arg' = [state |-> state]
           /\ ret' = NoValue
           /\ localStorage' = saveFormState(localStorage, state)
           /\ prev' = [saved |-> Spread(SavedFields, state),
                       before |-> loadFormState(localStorage)]
    /\ UNCHANGED <<today, tzWest, form, app, now, calculator, tracker, network>>

LoadFormStateCall ==
    /\ FormStoring
    /\ call' = "loadFormState"
    /\ arg' = NoValue
    /\ ret' = [state |-> loadFormState(localStorage)]
    /\ UNCHANGED <<today, tzWest, prev, form, app, browser>>

\* other code (an earlier version, a user in the developer tools) writes
\* the entry
ForeignSetItem ==
    /\ FormStoring
    /\ \E text \in ForeignTexts :
           /\ call' = "setItem"
           /\ arg' = [text |-> text]
           /\ ret' = NoValue
           /\ localStorage' = setItem(localStorage, STORAGE_KEY, text)
           /\ prev' = NoValue
    /\ UNCHANGED <<today, tzWest, form, app, now, calculator, tracker, network>>

\* the site data are cleared
ForeignRemoveItem ==
    /\ FormStoring
    /\ STORAGE_KEY \in DOMAIN localStorage
    /\ call' = "removeItem"
    /\ arg' = NoValue
    /\ ret' = NoValue
    /\ localStorage' = removeItem(localStorage, STORAGE_KEY)
    /\ prev' = NoValue
    /\ UNCHANGED <<today, tzWest, form, app, now, calculator, tracker, network>>

FormStateNext ==
    \/ Tick
    \/ SaveFormStateCall
    \/ LoadFormStateCall
    \/ ForeignSetItem
    \/ ForeignRemoveItem

SpecFormState == Init /\ [][FormStateNext]_vars

\* the cells of the sheet
DateCells ==
    {[form |-> f, day |-> d] : f \in {"iso", "slash"}, d \in {FirstDay + 1, FirstDay + 2}}
        \cup {[form |-> "text"], [form |-> "empty"]}

HrsCells == { <<"2">>, <<"1", ".", "5">> }
MinsCells == { <<"3", "0">>, <<"x">> }

\* the rows of a sheet whose date column is headed `header`
SheetRows(header) ==
    {[k \in {header, "HRS", "MINS"} |->
         IF k = header THEN date ELSE IF k = "HRS" THEN hrs ELSE mins] :
         date \in DateCells, hrs \in HrsCells, mins \in MinsCells}

\* a sheet whose rows have no date column
UndatedRows == {[HRS |-> hrs, MINS |-> <<>>] : hrs \in HrsCells}

\* tzWest = FALSE is UTC or a zone ahead of UTC
EastOrNot == IF tzWest THEN {FALSE} ELSE BOOLEAN

RowLists(rows) == UNION {[1..n -> rows] : n \in 0..MaxRows}

ParseCSVCall ==
    /\ call = "idle"
    /\ \E header \in {"Date", "date", "none"}, east \in EastOrNot :
       \E data \in RowLists(IF header = "none" THEN UndatedRows ELSE SheetRows(header)) :
           /\ call' = "parseCSV"
           /\ arg' = [data |-> data, east |-> east]
           /\ ret' = parseCSV(data, east)
    /\ UNCHANGED <<browser, today, tzWest, prev, form, app>>

CsvNext ==
    \/ ParseCSVCall

SpecCsv == Init /\ [][CsvNext]_vars

\* WorkHoursCalculator: useState of the inputs from loadFormState(); the
\* history fields are storedBefore (hasSavedData() before the first
\* render), automatic (runs of handleCalculate started by the effect),
\* clicked (runs started by the button) and lastRun (what started the
\* last run)
CalculatorState(savedState) ==
    [mounted |-> TRUE,
     total |-> savedState.whTotal,
     completed |-> savedState.whCompleted,
     startDate |-> savedState.whStart,
     endDate |-> savedState.whEnd,
     skipSunday |-> savedState.whSun,
     skipSaturday |-> savedState.whSat,
     excludeToday |-> savedState.whExcludeToday,
     hourlyRate |-> savedState.hourlyRate,
     output |-> [text |-> "Results will appear here"],
     effects |-> "mount",
     storedBefore |-> hasSavedData(localStorage),
     automatic |-> 0,
     clicked |-> FALSE,
     lastRun |-> "none"]

\* the component is rendered with the page (activeTab starts as
\* 'calculator'); the storage may hold the state of an earlier visit
MountCalculator ==
    /\ call \in {"idle", "setItem"}
    /\ ~calculator.mounted
    /\ calculator' = CalculatorState(loadFormState(localStorage))
    /\ call' = "WorkHoursCalculator"
    /\ UNCHANGED <<today, tzWest, arg, ret, prev, form, app, now,
                   localStorage, tracker, network>>

\* events of the component are handled once its effects have run
CalculatorReady ==
    /\ call = "WorkHoursCalculator"
    /\ calculator.mounted
    /\ calculator.effects = "none"

\* a state setter of the component: a changed value renders the component
\* again, and its effects run next
CalculatorSet(field, value) ==
    /\ CalculatorReady
    /\ calculator[field] # value
    /\ calculator' = [calculator EXCEPT ![field] = value, !.effects = "change"]
    /\ UNCHANGED <<today, tzWest, call, arg, ret, prev, form, app, now,
                   localStorage, tracker, network>>

CalculatorSetTotal == \E value \in TotalArgs : CalculatorSet("total", value)

CalculatorSetCompleted == \E value \in CompletedArgs : CalculatorSet("completed", value)

CalculatorSetHourlyRate == \E value \in {<<"0">>, <<"2", "9", "0", "0">>} : CalculatorSet("hourlyRate", value)

CalculatorSetStartDate == \E value \in {FirstDay + 1, FirstDay + 2} : CalculatorSet("startDate", value)

CalculatorSetEndDate == \E value \in {FirstDay + 1, FirstDay + 7} : CalculatorSet("endDate", value)

CalculatorSetSkipSunday == \E value \in BOOLEAN : CalculatorSet("skipSunday", value)

CalculatorSetSkipSaturday == \E value \in BOOLEAN : CalculatorSet("skipSaturday", value)

CalculatorSetExcludeToday == \E value \in BOOLEAN : CalculatorSet("excludeToday", value)

\* the fields the component passes to saveFormState
CalculatorFields ==
    [whTotal |-> calculator.total,
     whCompleted |-> calculator.completed,
     whStart |-> calculator.startDate,
     whEnd |-> calculator.endDate,
     whSun |-> calculator.skipSunday,
     whSat |-> calculator.skipSaturday,
     whExcludeToday |-> calculator.excludeToday,
     hourlyRate |-> calculator.hourlyRate]

\* handleCalculate of the component, started by `starter`: the output it
\* sets and, unless calcWorkHours threw, the call of onCalculate, which is
\* handleCalculate of App
RunHandleCalculate(starter) ==
    \E result \in {calcWorkHours(calculator.total, calculator.completed,
                                 calculator.startDate, calculator.endDate,
                                 calculator.skipSunday, calculator.skipSaturday,
                                 calculator.excludeToday,
                                 RateOrZero(calculator.hourlyRate))} :
        /\ calculator' =
               [calculator EXCEPT
                   !.output = IF result.threw THEN [text |-> "Error: "]
                              ELSE [text |-> "Total hours: ",
                                    total |-> formatMinutes(Frac(result.total, 1))],
                   !.effects = "none",
                   !.automatic = IF starter = "effect" THEN @ + 1 ELSE @,
                   !.clicked = IF starter = "click" THEN TRUE ELSE @,
                   !.lastRun = starter]
        /\ app' = IF result.threw THEN app ELSE Calculated(result)

\* the effects after a render, in the order of the component: the inputs
\* are saved, then handleCalculate runs if hasSavedData()
CalculatorEffects ==
    /\ call = "WorkHoursCalculator"
    /\ calculator.mounted
    /\ calculator.effects # "none"
    /\ calculator.automatic < MaxRuns
    /\ localStorage' = saveFormState(localStorage, CalculatorFields)
    /\ IF hasSavedData(saveFormState(localStorage, CalculatorFields))
       THEN RunHandleCalculate("effect")
       ELSE /\ calculator' = [calculator EXCEPT !.effects = "none"]
            /\ UNCHANGED app
    /\ UNCHANGED <<today, tzWest, call, arg, ret, prev, form, now, tracker, network>>

\* the Calculate button
CalculatorClick ==
    /\ CalculatorReady
    /\ RunHandleCalculate("click")
    /\ UNCHANGED <<today, tzWest, call, arg, ret, prev, form, now,
                   localStorage, tracker, network>>

CalculatorNext ==
    \/ Tick
    \/ ForeignSetItem
    \/ MountCalculator
    \/ CalculatorSetTotal
    \/ CalculatorSetCompleted
    \/ CalculatorSetHourlyRate
    \/ CalculatorSetStartDate
    \/ CalculatorSetEndDate
    \/ CalculatorSetSkipSunday
    \/ CalculatorSetSkipSaturday
    \/ CalculatorSetExcludeToday
    \/ CalculatorEffects
    \/ CalculatorClick

SpecCalculator == Init /\ [][CalculatorNext]_vars

\* API keys a user types: one shorter than the 20 characters the
\* suggestions effect asks for, and one of full length
ShortKey == "waka_1"
FullKey == "waka_11111111-1111-1111"
ApiKeys == {ShortKey, FullKey}

\* project names a user types
ProjectNames == {"demo"}

\* project lists of /users/current/projects, cached as { data: names }
ProjectLists == {<<>>, <<"demo">>}

\* ttl of the cached project suggestions, in minutes
SuggestionsTtl == 30

\* the delay of the debounced fetch of the suggestions has passed for the
\* timer of this key
Timer(apiKey) == [apiKey |-> apiKey]

\* useState of WakaTimeTracker from loadWakaTimeFormState(); timer is the
\* pending timeout of the suggestions effect and sent counts the requests
\* sent to the API
TrackerState(savedState) ==
    [mounted |-> TRUE,
     apiKey |-> savedState.apiKey,
     projectName |-> savedState.projectName,
     rememberApiKey |-> savedState.rememberApiKey,
     loading |-> FALSE,
     error |-> Null,
     result |-> Null,
     projectSuggestions |-> <<>>,
     timer |-> Null,
     sent |-> 0]

\* the effect over [projectName, rememberApiKey]
FormStateEffect(store, t) ==
    saveWakaTimeFormState(store, [projectName |-> t.projectName,
                                  rememberApiKey |-> t.rememberApiKey])

\* the effect over [apiKey, rememberApiKey]
ApiKeyEffect(store, t) ==
    IF t.rememberApiKey /\ t.apiKey # ""
    THEN saveWakaTimeApiKey(store, t.apiKey)
    ELSE IF ~t.rememberApiKey THEN clearWakaTimeApiKey(store)
    ELSE store

\* the effect over [apiKey]: its cleanup clears the timer of the render
\* before; the tracker and the storage it leaves
SuggestionsEffect(store, t) ==
    IF t.apiKey = "" \/ Len(t.apiKey) < 20
    THEN [tracker |-> [t EXCEPT !.timer = Null], store |-> store]
    ELSE LET cached == loadFromCache(store, <<"projects">>)
         IN  IF cached.value # Null
             THEN [tracker |-> [t EXCEPT !.timer = Null,
                                         !.projectSuggestions = cached.value.names],
                   store |-> cached.store]
             ELSE [tracker |-> [t EXCEPT !.timer = Timer(t.apiKey)],
                   store |-> cached.store]

\* the tab of the tracker is opened: first render and the three effects
MountTracker ==
    /\ Mounted
    /\ ~tracker.mounted
    /\ LET t == TrackerState(loadWakaTimeFormState(localStorage))
           suggested == SuggestionsEffect(
                            ApiKeyEffect(FormStateEffect(localStorage, t), t), t)
       IN  /\ tracker' = suggested.tracker
           /\ localStorage' = suggested.store
    /\ call' = "App"
    /\ arg' = NoValue
    /\ UNCHANGED <<today, tzWest, ret, prev, form, app, now, calculator, network>>

\* events of the tracker
TrackerMounted == Mounted /\ tracker.mounted

\* onChange of the API key field; the effects over apiKey follow
TrackerSetApiKey ==
    /\ TrackerMounted
    /\ \E value \in ApiKeys :
           /\ value # tracker.apiKey
           /\ LET t == [tracker EXCEPT !.apiKey = value]
                  suggested == SuggestionsEffect(ApiKeyEffect(localStorage, t), t)
              IN  /\ tracker' = suggested.tracker
                  /\ localStorage' = suggested.store
                  /\ arg' = NoValue
    /\ call' = "App"
    /\ UNCHANGED <<today, tzWest, ret, prev, form, app, now, calculator, network>>

\* onChange of the project field; the effect over projectName follows
TrackerSetProjectName ==
    /\ TrackerMounted
    /\ \E value \in ProjectNames :
           /\ value # tracker.projectName
           /\ LET t == [tracker EXCEPT !.projectName = value]
              IN  /\ tracker' = t
                  /\ localStorage' = FormStateEffect(localStorage, t)
    /\ call' = "App"
    /\ arg' = NoValue
    /\ UNCHANGED <<today, tzWest, ret, prev, form, app, now, calculator, network>>

\* onChange of the checkbox; the two effects over rememberApiKey follow in
\* the order of their declaration
TrackerSetRememberApiKey ==
    /\ TrackerMounted
    /\ LET t == [tracker EXCEPT !.rememberApiKey = ~@]
       IN  /\ tracker' = t
           /\ localStorage' = ApiKeyEffect(FormStateEffect(localStorage, t), t)
    /\ call' = "App"
    /\ arg' = NoValue
    /\ UNCHANGED <<today, tzWest, ret, prev, form, app, now, calculator, network>>

\* the sequence without its i-th element
Without(seq, i) == SubSeq(seq, 1, i - 1) \o SubSeq(seq, i + 1, Len(seq))

\* the debounce delay has passed: fetchUserProjects(apiKey) sends its request
ProjectsTimer ==
    /\ TrackerMounted
    /\ tracker.timer # Null
    /\ tracker.sent < MaxRequests
    /\ network' = Append(network, [kind |-> "projects", apiKey |-> tracker.timer.apiKey])
    /\ tracker' = [tracker EXCEPT !.timer = Null, !.sent = @ + 1]
    /\ call' = "App"
    /\ arg' = NoValue
    /\ UNCHANGED <<today, tzWest, ret, prev, form, app, now, localStorage, calculator>>

\* what the API has answered: for a project and a period, when and with
\* which API key the data was fetched, and the same for the project list
Fetched == IF "fetched" \in DOMAIN prev THEN prev.fetched ELSE EmptyRecord

FetchedProjects == IF "projects" \in DOMAIN prev THEN prev.projects ELSE Null

\* the project and the period of a request
Asked(projectName, shared) ==
    [projectName |-> projectName,
     billingStart |-> shared.billingStart,
     billingEnd |-> shared.billingEnd]

\* the request of the suggestions settles: .then or .catch of the effect
ProjectsSettle ==
    /\ TrackerMounted
    /\ \E i \in DOMAIN network :
           /\ network[i].kind = "projects"
           /\ network' = Without(network, i)
           /\ \/ \E projects \in ProjectLists :
                    /\ tracker' = [tracker EXCEPT !.projectSuggestions = projects]
                    /\ localStorage' = saveToCache(localStorage, <<"projects">>,
                                                   [names |-> projects], SuggestionsTtl)
                    /\ prev' = [fetched |-> Fetched,
                                projects |-> [at |-> now,
                                              apiKey |-> network[i].apiKey,
                                              names |-> projects]]
              \/ /\ tracker' = [tracker EXCEPT !.projectSuggestions = <<>>]
                 /\ UNCHANGED <<localStorage, prev>>
    /\ call' = "App"
    /\ arg' = NoValue
    /\ UNCHANGED <<today, tzWest, ret, form, app, now, calculator>>

\* the start date of the tracker tab: setBillingStart of App; with the end
\* date of the first visit the values give a period of more than 90 days,
\* a start after the end and a start on the current day
TrackerSetBillingStart ==
    /\ TrackerMounted
    /\ \E value \in {NoDate, FirstDay - 100, FirstDay, FirstDay + 8} :
           /\ value # form.billingStart
           /\ LET shared == [form EXCEPT !.billingStart = value]
              IN  /\ form' = shared
                  /\ localStorage' = saveFormState(localStorage, SharedState(shared))
    /\ call' = "App"
    /\ arg' = NoValue
    /\ UNCHANGED <<today, tzWest, ret, prev, app, now, calculator, tracker, network>>

\* the message of the validation that fails, or "" when all of them pass;
\* new Date(billingStart) is midnight UTC of the start and `today` midnight
\* local time of the current day
ValidationError(t, shared, east) ==
    IF t.apiKey = "" THEN "Please enter your WakaTime API key"
    ELSE IF t.projectName = "" THEN "Please enter a project name"
    ELSE IF shared.billingStart = NoDate \/ shared.billingEnd = NoDate
         THEN "Please select both start and end dates"
    ELSE IF shared.billingEnd < shared.billingStart
         THEN "End date must be after start date"
    ELSE IF (IF east THEN shared.billingStart >= today
                     ELSE shared.billingStart > today)
         THEN "Start date cannot be in the future"
    ELSE ""

\* daysDiff > 90
LongRange(shared) == shared.billingEnd - shared.billingStart > 90

\* Mutant of FetchCacheKey: the API key is part of the cache key
FetchCacheKeyPerApiKey(t, shared) ==
    <<t.apiKey, "_", t.projectName, "_">> \o ToDec(shared.billingStart)
        \o <<"_">> \o ToDec(shared.billingEnd)

\* `${projectName}_${billingStart}_${billingEnd}`
FetchCacheKey(t, shared) ==
    <<t.projectName, "_">> \o ToDec(shared.billingStart)
        \o <<"_">> \o ToDec(shared.billingEnd)

\* `${Math.floor(totalMinutes / 60)} hrs ${totalMinutes % 60} mins`
CompletedText(result) ==
    LET totalMinutes == result.totalHours * 60 + result.totalMinutes
    IN  ToDec(totalMinutes \div 60) \o HrsWord \o ToDec(totalMinutes % 60) \o MinsWord

\* the storage after the effect of App that saves the shared state, for
\* the shared state of the next render
SavedShared(store, shared) ==
    IF shared = form THEN store ELSE saveFormState(store, SharedState(shared))

\* handleFetchData returns at a failed validation
FetchInvalid(message) ==
    /\ tracker' = [tracker EXCEPT !.error = [message |-> message]]
    /\ arg' = [handler |-> "handleFetchData", outcome |-> "invalid"]
    /\ UNCHANGED <<form, app, localStorage, network>>

\* handleFetchData returns at a declined confirm
FetchDeclined ==
    /\ arg' = [handler |-> "handleFetchData", outcome |-> "declined"]
    /\ UNCHANGED <<tracker, form, app, localStorage, network>>

\* handleFetchData finds the data in the cache
FetchCached(key, cached) ==
    LET completedHours == CompletedText(cached.value.result)
        shared == [form EXCEPT !.completedHours = completedHours]
    IN  /\ tracker' = [tracker EXCEPT !.result = cached.value.result,
                                      !.error = Null,
                                      !.loading = FALSE]
        /\ form' = shared
        /\ \E calculatorResult \in AutoCalculate(form) :
               app' = WakaTimeData(form, cached.value.result,
                                   cached.value.dailyData, calculatorResult)
        /\ localStorage' = SavedShared(cached.store, shared)
        /\ arg' = [handler |-> "handleFetchData", outcome |-> "cached"]
        /\ UNCHANGED network

\* handleFetchData awaits getProjectData: the request holds what the
\* handler and onDataFetch of this render have closed over
FetchRequested(key, cached) ==
    /\ tracker.sent < MaxRequests
    /\ tracker' = [tracker EXCEPT !.error = Null, !.loading = TRUE, !.sent = @ + 1]
    /\ network' = Append(network, [kind |-> "summaries",
                                   apiKey |-> tracker.apiKey,
                                   projectName |-> tracker.projectName,
                                   key |-> key,
                                   shared |-> form])
    /\ localStorage' = cached.store
    /\ arg' = [handler |-> "handleFetchData", outcome |-> "requested"]
    /\ UNCHANGED <<form, app>>

\* a click on Fetch Data, which is disabled while loading: handleFetchData
\* up to its return or its await
FetchDataStart ==
    /\ TrackerMounted
    /\ ~tracker.loading
    /\ \E east \in EastOrNot : \E proceed \in BOOLEAN :
           LET message == ValidationError(tracker, form, east)
               key == FetchCacheKey(tracker, form)
           IN  IF message # "" THEN FetchInvalid(message)
               ELSE IF LongRange(form) /\ ~proceed THEN FetchDeclined
               ELSE LET cached == loadFromCache(localStorage, key)
                    IN  IF cached.value # Null THEN FetchCached(key, cached)
                        ELSE FetchRequested(key, cached)
    /\ call' = "App"
    /\ UNCHANGED <<today, tzWest, ret, prev, now, calculator>>

\* what fetch gives for a request: a summary, a body without the data
\* array, a status that is not ok, or a rejection
Responses ==
    {[ok |-> TRUE, status |-> 200, json |-> Summary(days)] : days \in SampleDays}
        \cup {[ok |-> TRUE, status |-> 200, json |-> NoSummary]}
        \cup {[ok |-> FALSE, status |-> status] : status \in {401, 404, 429, 500}}
        \cup {[ok |-> FALSE, status |-> 0]}

\* throw new Error(message)
Failure(message) == [threw |-> TRUE, message |-> message]

\* the messages are named by their first words: after them the source
\* continues with advice to the user, the project name or the status text
fetchProjectSummary(response, request) ==
    IF response.status = 0 THEN Failure("CORS Error")
    ELSE IF ~response.ok
         THEN IF response.status = 401 THEN Failure("Invalid API key")
              ELSE IF response.status = 404 THEN Failure("Project not found")
              ELSE IF response.status = 429 THEN Failure("Rate limit exceeded")
              ELSE Failure("API error")
    ELSE Returned(response.json)

\* parseWakaTimeResponse throws on a body without the data array
getProjectData(response, request) ==
    LET summary == fetchProjectSummary(response, request)
    IN  IF summary.threw THEN summary
        ELSE LET result == parseWakaTimeResponse(summary.value, request.projectName)
             IN  IF result.threw THEN Failure("Invalid API response structure")
                 ELSE Returned([result |-> result,
                                dailyData |-> calculateDailyBreakdown(summary.value)])

\* Mutant of FetchThrew: the catch block without the finally block
FetchThrewStillLoading(message) ==
    /\ tracker' = [tracker EXCEPT !.error = [message |-> message],
                                  !.result = Null]
    /\ arg' = [handler |-> "handleFetchData", outcome |-> "threw"]
    /\ UNCHANGED <<form, app, localStorage, prev>>

\* getProjectData has thrown: the catch and the finally block
FetchThrew(message) ==
    /\ tracker' = [tracker EXCEPT !.error = [message |-> message],
                                  !.result = Null,
                                  !.loading = FALSE]
    /\ arg' = [handler |-> "handleFetchData", outcome |-> "threw"]
    /\ UNCHANGED <<form, app, localStorage, prev>>

\* getProjectData has returned: the rest of the try block and the finally
\* block, with the state setters acting on the current state of App and
\* onDataFetch being handleWakaTimeData of the render of the click
FetchReturned(request, data) ==
    LET completedHours == CompletedText(data.result)
        shared == [form EXCEPT !.completedHours = completedHours]
    IN  /\ tracker' = [tracker EXCEPT !.result = data.result,
                                      !.error = Null,
                                      !.loading = FALSE]
        /\ form' = shared
        /\ \E calculatorResult \in AutoCalculate(request.shared) :
               app' = WakaTimeData(request.shared, data.result, data.dailyData,
                                   calculatorResult)
        /\ localStorage' = SavedShared(saveToCache(localStorage, request.key,
                                                   data, DefaultTtl), shared)
        /\ prev' = [fetched |-> setItem(Fetched,
                                        Asked(request.projectName, request.shared),
                                        [at |-> now, apiKey |-> request.apiKey,
                                         data |-> data]),
                    projects |-> FetchedProjects]
        /\ arg' = [handler |-> "handleFetchData", outcome |-> "fetched"]

\* the awaited promise settles
FetchDataSettle ==
    /\ TrackerMounted
    /\ \E i \in DOMAIN network :
           /\ network[i].kind = "summaries"
           /\ network' = Without(network, i)
           /\ \E response \in Responses :
                  LET data == getProjectData(response, network[i])
                  IN  IF data.threw THEN FetchThrew(data.message)
                      ELSE FetchReturned(network[i], data.value)
    /\ call' = "App"
    /\ UNCHANGED <<today, tzWest, ret, now, calculator>>

\* the fields and the suggestions of the tracker
TrackerFormNext ==
    \/ MountTracker
    \/ TrackerSetApiKey
    \/ TrackerSetProjectName
    \/ TrackerSetRememberApiKey
    \/ ProjectsTimer
    \/ ProjectsSettle

SpecTrackerForm == Init /\ [][TrackerFormNext]_vars

\* fetching with the tracker within the ttl of what it caches, the key
\* being remembered and the end of the period left as it is
TrackerNext ==
    \/ MountTracker
    \/ TrackerSetApiKey
    \/ TrackerSetProjectName
    \/ TrackerSetBillingStart
    \/ ProjectsTimer
    \/ ProjectsSettle
    \/ FetchDataStart
    \/ FetchDataSettle

SpecTracker == Init /\ [][TrackerNext]_vars

\* every request is answered or fails: the promise fetch returns settles
SpecTrackerFair == SpecTracker /\ WF_vars(FetchDataSettle)

---------------------------------------------------------------------------
(* time_calculator *)

\* text.split(separator) for a separator of one character
RECURSIVE Split(_, _)
Split(text, separator) ==
    IF \A i \in 1..Len(text) : text[i] # separator THEN <<text>>
    ELSE LET k == CHOOSE i \in 1..Len(text) :
                      text[i] = separator /\ \A j \in 1..(i - 1) : text[j] # separator
         IN  <<SubSeq(text, 1, k - 1)>> \o Split(SubSeq(text, k + 1, Len(text)), separator)

\* the digits parseInt(part, 10) reads: the digits the part starts with
RECURSIVE DigitPrefix(_)
DigitPrefix(part) ==
    IF part = <<>> \/ ~IsDigit(part[1]) THEN <<>>
    ELSE <<part[1]>> \o DigitPrefix(Tail(part))

\* 'hrs' and 'mins'
HrsToken == <<"h", "r", "s">>
MinsToken == <<"m", "i", "n", "s">>

\* parseTimeString of time_calculator: the minutes of 'HH hrs MM mins', or
\* an Error for any other text
parseTimeString(timeString) ==
    LET parts == Split(timeString, " ")
    IN  IF Len(parts) = 4 /\ parts[2] = HrsToken /\ parts[4] = MinsToken
        THEN IF IsNaN(parts[1]) \/ IsNaN(parts[3]) THEN Threw
             ELSE Returned(parseInt(DigitPrefix(parts[1])) * 60
                               + parseInt(DigitPrefix(parts[3])))
        ELSE Threw

\* ' hours ' and ' minutes' of the template literal
HoursWord == <<" ", "h", "o", "u", "r", "s", " ">>
MinutesWord == <<" ", "m", "i", "n", "u", "t", "e", "s">>

\* `${hours} hours ${minutes} minutes`
formatTime(totalMinutes) ==
    ToDec(totalMinutes \div 60) \o HoursWord \o ToDec(totalMinutes % 60) \o MinutesWord

\* 'Total time: '
TotalLabel == <<"T", "o", "t", "a", "l", " ", "t", "i", "m", "e", ":", " ">>

\* '--pdf-dir=' and '--'
PdfDirFlag == <<"-", "-", "p", "d", "f", "-", "d", "i", "r", "=">>
DashDash == <<"-", "-">>

\* text.startsWith(prefix)
StartsWith(text, prefix) ==
    Len(text) >= Len(prefix) /\ SubSeq(text, 1, Len(prefix)) = prefix

\* a number of two digits, as the dates of the PDFs write hours and minutes
TwoDigits(n) == IF n < 10 THEN <<"0">> \o ToDec(n) ELSE ToDec(n)

\* 'H hrs M mins'
TimeText(hours, minutes) ==
    ToDec(hours) \o <<" ">> \o HrsToken \o <<" ">> \o ToDec(minutes) \o <<" ">> \o MinsToken

\* the day of the date strings
StampDay == <<"2", "0", "2", "5", "-", "0", "1", "-", "0", "6", " ">>

\* 'Start: YYYY-MM-DD HH:MM, End: YYYY-MM-DD HH:MM' for two times of a day
StartEndText(startHour, startMinute, endHour, endMinute) ==
    <<"S", "t", "a", "r", "t", ":", " ">> \o StampDay
        \o TwoDigits(startHour) \o <<":">> \o TwoDigits(startMinute)
        \o <<",", " ", "E", "n", "d", ":", " ">> \o StampDay
        \o TwoDigits(endHour) \o <<":">> \o TwoDigits(endMinute)

\* the directories of the file system: the time strings extractTimeStrings
\* finds in the PDF files of each, those of the first pattern before those
\* of the second; any other path is not a directory that can be read
Directories ==
    [d \in {<<"a">>, <<"b">>, <<"c">>} |->
        CASE d = <<"a">> -> <<TimeText(2, 0)>>
          [] d = <<"b">> -> <<StartEndText(9, 0, 10, 30)>>
          [] d = <<"c">> -> <<TimeText(2, 0), TimeText(0, 20), StartEndText(9, 0, 10, 30)>>]

\* processPDFs: the time strings of the PDF files of the directory, or the
\* error of Deno.readDirSync thrown again
processPDFs(pdfDir) ==
    IF pdfDir \in DOMAIN Directories THEN Returned(Directories[pdfDir]) ELSE Threw

\* the first loop of main over Deno.args, from the values totalMinutes and
\* timeStrings have when the loop reaches args; exited after Deno.exit(1)
RECURSIVE ArgLoop(_, _, _)
ArgLoop(args, totalMinutes, timeStrings) ==
    IF args = <<>>
    THEN [exited |-> FALSE, totalMinutes |-> totalMinutes, timeStrings |-> timeStrings]
    ELSE IF StartsWith(Head(args), PdfDirFlag)
         THEN LET pdfTimes == processPDFs(Split(Head(args), "=")[2])
              IN  IF pdfTimes.threw
                  THEN [exited |-> TRUE, totalMinutes |-> totalMinutes,
                        timeStrings |-> timeStrings]
                  ELSE ArgLoop(Tail(args), totalMinutes, timeStrings \o pdfTimes.value)
    ELSE IF ~StartsWith(Head(args), DashDash)
         THEN LET minutes == parseTimeString(Head(args))
              IN  IF minutes.threw THEN ArgLoop(Tail(args), totalMinutes, timeStrings)
                  ELSE ArgLoop(Tail(args), totalMinutes + minutes.value,
                               Append(timeStrings, Head(args)))
    ELSE ArgLoop(Tail(args), totalMinutes, timeStrings)

\* the second loop of main: totalMinutes += parseTimeString(timeString) for
\* every time string that parses
RECURSIVE ExtractedLoop(_, _)
ExtractedLoop(timeStrings, totalMinutes) ==
    IF timeStrings = <<>> THEN totalMinutes
    ELSE LET minutes == parseTimeString(Head(timeStrings))
         IN  ExtractedLoop(Tail(timeStrings),
                           IF minutes.threw THEN totalMinutes
                           ELSE totalMinutes + minutes.value)

\* main: the exit code and the line it prints
main(args) ==
    LET parsed == ArgLoop(args, 0, <<>>)
        totalMinutes ==
            IF \E i \in 1..Len(args) : StartsWith(args[i], PdfDirFlag)
            THEN ExtractedLoop(parsed.timeStrings, parsed.totalMinutes)
            ELSE parsed.totalMinutes
    IN  IF parsed.exited THEN [exit |-> 1, printed |-> <<>>]
        ELSE [exit |-> 0, printed |-> TotalLabel \o formatTime(totalMinutes)]

\* command-line arguments: two durations, a duration with the singular
\* 'min' of the header's example, another flag, and --pdf-dir for the three
\* directories and for a path that is none
CommandLineArgs ==
    {TimeText(1, 30), TimeText(0, 45),
     ToDec(1) \o <<" ">> \o HrsToken \o <<" ">> \o ToDec(5) \o <<" ", "m", "i", "n">>,
     <<"-", "-", "v">>}
        \cup {PdfDirFlag \o d : d \in DOMAIN Directories \cup {<<"x">>}}

\* Deno.args
ArgLists == UNION {[1..n -> CommandLineArgs] : n \in 0..MaxArgs}

MainCall ==
    /\ call = "idle"
    /\ \E args \in ArgLists :
           /\ call' = "main"
           /\ arg' = [args |-> args]
           /\ ret' = main(args)
    /\ UNCHANGED <<browser, today, tzWest, prev, form, app>>

TimeCalculatorNext == MainCall

SpecTimeCalculator == Init /\ [][TimeCalculatorNext]_vars

Next ==
    \/ CodecNext
    \/ RepeatNext
    \/ MergeNext
    \/ WakaNext
    \/ AppNext
    \/ CacheNext
    \/ FormStateNext
    \/ CsvNext
    \/ CalculatorNext
    \/ TrackerFormNext
    \/ TrackerNext
    \/ TimeCalculatorNext

Spec == Init /\ [][Next]_vars

---------------------------------------------------------------------------
(* Properties of the codec *)

\* what the time grammar (the anchored pattern) reads off a string it matches
GrammarHours(s) ==
    LET m == StrictMatch(s) IN IF m.m1 # <<>> THEN parseInt(m.m1) ELSE 0

GrammarMinutes(s) ==
    LET m == StrictMatch(s) IN IF m.m2 # <<>> THEN parseInt(m.m2) ELSE 0

InGrammar(s) == StrictMatch(s).matched

\* C1: round trip: for every non-negative integer number of minutes m,
\* parseTime(formatMinutes(m)) returns m.
C1_RoundTrip ==
    (call = "formatMinutes" /\ arg.totalMinutes.den = 1 /\ arg.totalMinutes.num >= 0)
        => parseTime(ret.text) = Returned(arg.totalMinutes.num)

C1_Witness ==
    /\ call = "formatMinutes"
    /\ arg.totalMinutes = Int1(125)
    /\ ret.text = <<"2", " ", "h", "r", "s", " ", "5", " ", "m", "i", "n", "s">>
    /\ parseTime(ret.text) = Returned(125)

\* C2 (as claimed): parseTime fails with an error for every input string that
\* does not match the time grammar.
C2_RejectsNonGrammar ==
    (call = "parseTime" /\ ~InGrammar(arg.timeString)) => ret.threw

\* the minutes of the lines that are time strings
RECURSIVE SumOfValidLines(_)
SumOfValidLines(ls) ==
    IF ls = <<>> THEN 0
    ELSE (IF InGrammar(Head(ls))
          THEN 60 * GrammarHours(Head(ls)) + GrammarMinutes(Head(ls))
          ELSE 0) + SumOfValidLines(Tail(ls))

\* C7 (as claimed): sumTimeStrings returns the sum of the minutes of the lines
\* that are time strings; every other line contributes nothing, and nothing
\* is thrown.
C7_SumsValidLinesOnly ==
    call = "sumTimeStrings" => ret = Returned(SumOfValidLines(arg.lines))

\* C8: on a string of the time grammar the lenient parseTime returns
\* 60*H + M for every M, also M > 59; the strict parseTime throws whenever
\* the minutes are greater than 59 (and returns 60*H + M otherwise).
C8_MinutePolicies ==
    /\ (call = "parseTime" /\ InGrammar(arg.timeString))
           => ret = Returned(60 * GrammarHours(arg.timeString) + GrammarMinutes(arg.timeString))
    /\ (call = "parseTimeStrict" /\ InGrammar(arg.timeString))
           => IF GrammarMinutes(arg.timeString) > 59 THEN ret.threw
              ELSE ret = Returned(60 * GrammarHours(arg.timeString) + GrammarMinutes(arg.timeString))
    /\ (call = "parseTime"
        /\ arg.timeString = <<"1", " ", "h", "r", "s", " ", "7", "5", " ", "m", "i", "n", "s">>)
           => ret = Returned(135)
    /\ (call = "parseTimeStrict"
        /\ arg.timeString = <<"1", " ", "h", "r", "s", " ", "7", "5", " ", "m", "i", "n", "s">>)
           => ret.threw

C8_Witness ==
    /\ call = "parseTime"
    /\ arg.timeString = <<"1", " ", "h", "r", "s", " ", "7", "5", " ", "m", "i", "n", "s">>
    /\ ret = Returned(135)
    /\ parseTimeStrict(arg.timeString).threw

\* C9: for every integer m, formatMinutes(m) is <sign><h> hrs <mm> mins with
\* the sign "-" exactly when m < 0, h = floor(|m| / 60) and mm = |m| mod 60.
C9_FormatShape ==
    (call = "formatMinutes" /\ arg.totalMinutes.den = 1) =>
        LET m    == arg.totalMinutes.num
            neg  == ret.text # <<>> /\ ret.text[1] = "-"
            body == IF neg THEN Tail(ret.text) ELSE ret.text
            j    == SkipDigits(body, 1)
            k    == j + Len(HrsWord)
            j2   == SkipDigits(body, k)
            h    == parseInt(SubSeq(body, 1, j - 1))
            mm   == parseInt(SubSeq(body, k, j2 - 1))
        IN  /\ neg <=> m < 0
            /\ j > 1 /\ j2 > k
            /\ SubSeq(body, j, k - 1) = HrsWord
            /\ SubSeq(body, j2, Len(body)) = MinsWord
            /\ SubSeq(body, 1, j - 1) = ToDec(h)
            /\ SubSeq(body, k, j2 - 1) = ToDec(mm)
            /\ 0 <= mm /\ mm <= 59
            /\ 60 * h + mm = Abs(m)
            /\ (m = -200 =>
                  ret.text = <<"-", "3", " ", "h", "r", "s", " ", "2", "0", " ", "m", "i", "n", "s">>)

C9_Witness ==
    /\ call = "formatMinutes"
    /\ arg.totalMinutes = Int1(-200)
    /\ ret.text = <<"-", "3", " ", "h", "r", "s", " ", "2", "0", " ", "m", "i", "n", "s">>

---------------------------------------------------------------------------
(* Properties of the allocation engine *)

IsZero(q) == q.num = 0 /\ q.den > 0
IsNegative(q) == q.num < 0 /\ q.den > 0
Skips(d) == (arg.skipSun /\ getDay(d) = 0) \/ (arg.skipSat /\ getDay(d) = 6)

\* C3: the effective start is billingStart when today is before billingStart
\* or after billingEnd, otherwise today, one day later when excludeToday is
\* set; with today = billingEnd and excludeToday set no day is iterated.
C3_EffectiveStart ==
    call = "calcWorkHours" =>
        /\ (today < ret.billingStart => ret.start = ret.billingStart)
        /\ (today > ret.billingEnd => ret.start = ret.billingStart)
        /\ (ret.billingStart <= today /\ today <= ret.billingEnd)
               => ret.start = today + (IF arg.excludeToday THEN 1 ELSE 0)
        /\ (today = ret.billingEnd /\ arg.excludeToday)
               => (ret.remainingDays = 0 /\ ret.days = <<>>)

C3_Witness ==
    /\ call = "calcWorkHours"
    /\ ret.billingStart < today
    /\ today = ret.billingEnd
    /\ arg.excludeToday
    /\ ret.start = today + 1
    /\ ret.remainingDays = 0

\* C4: days holds exactly one entry per calendar day from the effective start
\* through billingEnd, in increasing order; remainingDays = days.length =
\* workdays + skipped.length; a day is a non-workday, and listed in skipped,
\* exactly when a weekend flag excludes it.  The past period 2025-01-01 ..
\* 2025-01-07 with both flags and 6000 minutes left: 7 days, 5 workdays, 1200
\* minutes a day.
C4_Schedule ==
    call = "calcWorkHours" =>
        LET n == Len(ret.days)
            nonWork == {i \in 1..n : ~ret.days[i].work}
        IN  /\ n = (IF ret.start <= ret.billingEnd
                    THEN ret.billingEnd - ret.start + 1 ELSE 0)
            /\ \A i \in 1..n : ret.days[i].date = ret.start + i - 1
            /\ ret.remainingDays = n
            /\ n = ret.workdays + Len(ret.skipped)
            /\ \A i \in 1..n : ret.days[i].work <=> ~Skips(ret.days[i].date)
            /\ Len(ret.skipped) = Cardinality(nonWork)
            /\ {ret.skipped[k].day : k \in 1..Len(ret.skipped)}
                   = {ret.days[i].date : i \in nonWork}
            /\ (/\ arg.startStr = 20089 /\ arg.endStr = 20095
                /\ arg.skipSun /\ arg.skipSat
                /\ today > ret.billingEnd
                /\ ret.remaining = 6000)
                   => /\ ret.remainingDays = 7
                      /\ ret.workdays = 5
                      /\ ret.perDay.num = 1200 * ret.perDay.den
                      /\ {ret.skipped[k].day : k \in 1..Len(ret.skipped)} = {20092, 20093}

C4_Witness ==
    /\ call = "calcWorkHours"
    /\ ~tzWest
    /\ arg.startStr = 20089 /\ arg.endStr = 20095
    /\ arg.skipSun /\ arg.skipSat
    /\ today > ret.billingEnd
    /\ ret.remaining = 6000
    /\ ret.remainingDays = 7
    /\ ret.workdays = 5
    /\ ret.perDay = Frac(6000, 5)
    /\ ret.skipped = <<[weekday |-> "Sat", day |-> 20092], [weekday |-> "Sun", day |-> 20093]>>

\* C5: whenever calcWorkHours ends with workdays = 0, perDay is exactly 0 and
\* the call returns normally.
C5_ZeroWorkdays ==
    (call = "calcWorkHours" /\ (ret.threw \/ ret.workdays = 0))
        => (~ret.threw /\ IsZero(ret.perDay))

\* every remaining day excluded by the weekend flags, with minutes left
C5_Witness ==
    /\ call = "calcWorkHours"
    /\ ret.remainingDays = 2
    /\ ret.workdays = 0
    /\ ret.remaining > 0
    /\ ret.perDay = Frac(0, 1)

\* C6: for billingEnd < billingStart, wherever today lies, remainingDays = 0
\* and workdays = 0 and nothing is thrown.
C6_ReversedPeriod ==
    (call = "calcWorkHours" /\ (ret.threw \/ ret.billingEnd < ret.billingStart))
        => (~ret.threw /\ ret.remainingDays = 0 /\ ret.workdays = 0 /\ ret.days = <<>>)

\* today strictly between the reversed dates
C6_Witness ==
    /\ call = "calcWorkHours"
    /\ ret.billingEnd < today
    /\ today < ret.billingStart
    /\ ret.remainingDays = 0
    /\ ret.workdays = 0

\* C10 (as claimed): remaining = total - completed, and when completed > total
\* then remaining, perDay and remainingEarnings are all negative.
C10_AllNegative ==
    call = "calcWorkHours" =>
        /\ ret.remaining = ret.total - ret.completed
        /\ ret.completed > ret.total
               => /\ ret.remaining < 0
                  /\ IsNegative(ret.perDay)
                  /\ IsNegative(ret.remainingEarnings)

\* C10 (amended): remaining = total - completed, never clamped; when
\* completed > total, remaining is negative, perDay is negative when there is
\* a workday and 0 when there is none, and remainingEarnings is negative when
\* hourlyRate > 0 and 0 when hourlyRate = 0.
C10_Unclamped ==
    call = "calcWorkHours" =>
        /\ ret.total = parseTime(arg.totalStr).value
        /\ ret.completed = parseTime(arg.completedStr).value
        /\ ret.remaining = ret.total - ret.completed
        /\ ret.completed > ret.total
               => /\ ret.remaining < 0
                  /\ IF ret.workdays > 0
                     THEN IsNegative(ret.perDay)
                          /\ ret.perDay.num * ret.workdays = ret.remaining * ret.perDay.den
                     ELSE IsZero(ret.perDay)
                  /\ IF ret.hourlyRate > 0
                     THEN IsNegative(ret.remainingEarnings)
                     ELSE IsZero(ret.remainingEarnings)

C10_Witness ==
    /\ call = "calcWorkHours"
    /\ ret.total = 90
    /\ ret.completed = 120
    /\ ret.remaining = -30
    /\ ret.workdays = 3
    /\ ret.perDay = Frac(-30, 3)
    /\ ret.hourlyRate = 1
    /\ ret.remainingEarnings = Frac(-30, 60)

\* equality, sum and product of quotients with positive denominators
FracEq(a, b) == a.den > 0 /\ b.den > 0 /\ a.num * b.den = b.num * a.den
FracAdd(a, b) == Frac(a.num * b.den + b.num * a.den, a.den * b.den)
FracTimes(a, n) == Frac(a.num * n, a.den)

---------------------------------------------------------------------------
(* Properties of the comparison utilities *)

\* C12: calculateDiscrepancy(manual, external) for non-negative inputs:
\* (0, 0) gives {0, match}; manual = 0 with external > 0 gives {100, over};
\* otherwise the percentage is |external - manual| / manual * 100 and the
\* status is match iff the percentage is below 5 (exactly 5% is no match),
\* else over iff external > manual, else under.
C12_Discrepancy ==
    call = "calculateDiscrepancy" =>
        LET manual == arg.manual
            external == arg.wakatime
        IN  /\ (manual = 0 /\ external = 0)
                   => (IsZero(ret.percentage) /\ ret.status = "match")
            /\ (manual = 0 /\ external > 0)
                   => (ret.percentage = Frac(100, 1) /\ ret.status = "over")
            /\ manual > 0 =>
                  /\ FracEq(FracTimes(ret.percentage, manual),
                            Frac(Abs(external - manual) * 100, 1))
                  /\ (ret.status = "match") <=> (20 * Abs(external - manual) < manual)
                  /\ (ret.status = "over")
                         <=> (20 * Abs(external - manual) >= manual /\ external > manual)
                  /\ (ret.status = "under")
                         <=> (20 * Abs(external - manual) >= manual /\ external <= manual)
                  /\ ret.status \in {"match", "over", "under"}

\* exactly 5% above the manual hours: not a match
C12_Witness ==
    /\ call = "calculateDiscrepancy"
    /\ arg.manual = 100
    /\ arg.wakatime = 105
    /\ ret.percentage = Frac(500, 100)
    /\ ret.status = "over"

\* C13: mergeWakaTimeWithManual returns one entry for every date that is a
\* key of either input map and no other entry; a date missing from one map
\* takes 0 for that side (external {01-01: 2.5} with manual {01-01: 90,
\* 01-02: 30} gives two entries, the second with external 0).
C13_MergedDates ==
    call = "mergeWakaTimeWithManual" =>
        /\ DOMAIN ret.merged = DOMAIN arg.wakaTimeData \cup DOMAIN arg.manualData
        /\ \A date \in DOMAIN ret.merged :
              /\ IF date \in DOMAIN arg.wakaTimeData
                 THEN FracEq(ret.merged[date].wakatime, arg.wakaTimeData[date])
                 ELSE IsZero(ret.merged[date].wakatime)
              /\ IF date \in DOMAIN arg.manualData
                 THEN FracEq(ret.merged[date].manual, Frac(arg.manualData[date], 60))
                 ELSE IsZero(ret.merged[date].manual)
        /\ (/\ arg.wakaTimeData = [date \in {"2025-01-01"} |-> Frac(5, 2)]
            /\ arg.manualData = [date \in {"2025-01-01", "2025-01-02"} |->
                                    IF date = "2025-01-01" THEN 90 ELSE 30])
               => /\ DOMAIN ret.merged = {"2025-01-01", "2025-01-02"}
                  /\ IsZero(ret.merged["2025-01-02"].wakatime)
                  /\ ret.merged["2025-01-02"].manual = Frac(30, 60)

\* the example of the claim
C13_Witness ==
    /\ call = "mergeWakaTimeWithManual"
    /\ DOMAIN arg.wakaTimeData = {"2025-01-01"}
    /\ arg.wakaTimeData["2025-01-01"] = Frac(5, 2)
    /\ DOMAIN arg.manualData = {"2025-01-01", "2025-01-02"}
    /\ arg.manualData["2025-01-01"] = 90
    /\ arg.manualData["2025-01-02"] = 30
    /\ Cardinality(DOMAIN ret.merged) = 2
    /\ ret.merged["2025-01-02"].wakatime = Frac(0, 1)

\* C14 as claimed: the difference field is in minutes and equals
\* externalHours * 60 - manualMinutes.
C14_DifferenceInMinutes ==
    call = "mergeWakaTimeWithManual" =>
        \A date \in DOMAIN ret.merged :
            FracEq(ret.merged[date].difference,
                   Frac(HoursOrZero(arg.wakaTimeData, date).num * 60
                            - MinutesOrZero(arg.manualData, date)
                                  * HoursOrZero(arg.wakaTimeData, date).den,
                        HoursOrZero(arg.wakaTimeData, date).den))

\* C14 (amended): for every date in the merged result the difference field
\* is in hours, as are the manual and wakatime fields beside it, and equals
\* externalHours - manualMinutes / 60: sixty times the difference is
\* externalHours * 60 - manualMinutes.
C14_DifferenceInHours ==
    call = "mergeWakaTimeWithManual" =>
        \A date \in DOMAIN ret.merged :
            /\ FracEq(FracTimes(ret.merged[date].difference, 60),
                      Frac(HoursOrZero(arg.wakaTimeData, date).num * 60
                               - MinutesOrZero(arg.manualData, date)
                                     * HoursOrZero(arg.wakaTimeData, date).den,
                           HoursOrZero(arg.wakaTimeData, date).den))
            /\ FracEq(ret.merged[date].difference,
                      FracAdd(ret.merged[date].wakatime,
                              FracTimes(ret.merged[date].manual, -1)))

\* 2.5 tracked hours against 90 manual minutes: one hour more, not 60
C14_Witness ==
    /\ call = "mergeWakaTimeWithManual"
    /\ "2025-01-01" \in DOMAIN arg.wakaTimeData
    /\ "2025-01-01" \in DOMAIN arg.manualData
    /\ arg.wakaTimeData["2025-01-01"] = Frac(5, 2)
    /\ arg.manualData["2025-01-01"] = 90
    /\ FracEq(ret.merged["2025-01-01"].difference, Frac(1, 1))
    /\ "2025-01-02" \in DOMAIN ret.merged
    /\ IsNegative(ret.merged["2025-01-02"].difference)

---------------------------------------------------------------------------
(* Properties of the WakaTime summaries *)

\* seconds of a day record, 0 when it carries no numeric total
SecondsOfDay(day) ==
    IF day.grand_total.isNumber THEN day.grand_total.total_seconds ELSE 0

ActiveDays(days) == {i \in 1..Len(days) : SecondsOfDay(days[i]) > 0}

RECURSIVE SecondsOver(_, _)
SecondsOver(days, indices) ==
    IF indices = {} THEN 0
    ELSE LET i == CHOOSE i \in indices : TRUE
         IN  SecondsOfDay(days[i]) + SecondsOver(days, indices \ {i})

\* C15: parseWakaTimeResponse sets totalSeconds to the sum of
\* grand_total.total_seconds over the day records whose value is > 0 and
\* daysWithData to the number of those records; averageHoursPerDay is
\* totalSeconds / 3600 / daysWithData when daysWithData > 0 and 0 otherwise;
\* for an empty list every total is 0, mostProductiveDay is null and the
\* three category lists are empty.
C15_Totals ==
    (call = "parseWakaTimeResponse" /\ ~ret.threw) =>
        LET days == arg.data.data
        IN  /\ ret.totalSeconds = SecondsOver(days, ActiveDays(days))
            /\ ret.daysWithData = Cardinality(ActiveDays(days))
            /\ ret.daysWithData > 0
                   => FracEq(FracTimes(ret.averageHoursPerDay, 3600 * ret.daysWithData),
                             Frac(ret.totalSeconds, 1))
            /\ ret.daysWithData = 0 => IsZero(ret.averageHoursPerDay)
            /\ days = <<>> =>
                  /\ ret.totalSeconds = 0
                  /\ ret.totalHours = 0
                  /\ ret.totalMinutes = 0
                  /\ ret.daysWithData = 0
                  /\ IsZero(ret.averageHoursPerDay)
                  /\ ret.mostProductiveDay = Null
                  /\ ret.languages = <<>>
                  /\ ret.editors = <<>>
                  /\ ret.operatingSystems = <<>>

\* three records, one of them idle and one without a total: one active day
C15_Witness ==
    /\ call = "parseWakaTimeResponse"
    /\ ~ret.threw
    /\ Len(arg.data.data) = 3
    /\ \E i, j \in 1..3 :
          /\ arg.data.data[i].grand_total = [isNumber |-> TRUE, total_seconds |-> 0]
          /\ ~arg.data.data[j].grand_total.isNumber
    /\ ret.totalSeconds = 1800
    /\ ret.daysWithData = 1
    /\ ret.averageHoursPerDay = Frac(1800, 3600)

\* the first record with the largest total
BestDay(days) ==
    CHOOSE i \in 1..Len(days) :
        /\ \A j \in 1..Len(days) : SecondsOfDay(days[j]) <= SecondsOfDay(days[i])
        /\ \A j \in 1..(i - 1) : SecondsOfDay(days[j]) < SecondsOfDay(days[i])

\* C16: for every non-empty list of day records mostProductiveDay is the
\* record with the maximum totalSeconds, the first such record in input
\* order when several tie, also when records share a date or the maximum
\* record has no date field.
C16_MostProductiveDay ==
    (call = "parseWakaTimeResponse" /\ ~ret.threw /\ arg.data.data # <<>>) =>
        LET days == arg.data.data
            best == days[BestDay(days)]
        IN  /\ ~ret.mostProductiveDay.isNull
            /\ FracEq(ret.mostProductiveDay.hours, Frac(SecondsOfDay(best), 3600))
            /\ ret.mostProductiveDay.date
                   = (IF best.range.date # "" THEN best.range.date ELSE best.range.start)

\* the key of a record: range.date, else range.start, "" for neither
KeyOfDay(day) == IF day.range.date # "" THEN day.range.date ELSE day.range.start

KeyedDays(days) == {i \in 1..Len(days) : KeyOfDay(days[i]) # ""}

\* C17 as claimed: calculateDailyBreakdown produces one map entry per day
\* record, keyed by range.date (range.start when date is absent) with value
\* total_seconds / 3600; a record with neither field is left out, so the
\* number of entries is the number of records with a date or start field.
C17_EntryPerRecord ==
    call = "calculateDailyBreakdown" =>
        LET days == arg.data.data
        IN  /\ Len(ret.dailyData) = Cardinality(KeyedDays(days))
            /\ \A i \in KeyedDays(days) :
                  \E e \in 1..Len(ret.dailyData) :
                      /\ ret.dailyData[e].key = KeyOfDay(days[i])
                      /\ FracEq(ret.dailyData[e].value, Frac(SecondsOfDay(days[i]), 3600))

\* C17 (amended): calculateDailyBreakdown produces one map entry per
\* distinct key among the day records, the key being range.date or, when
\* date is absent, range.start; the value is total_seconds / 3600 of the last
\* record with that key (0 without a numeric total); a record with neither
\* field is left out, so the number of entries is the number of distinct
\* keys, and the number of keyed records only when no two share a key.
C17_EntryPerDate ==
    call = "calculateDailyBreakdown" =>
        LET days == arg.data.data
            keys == {KeyOfDay(days[i]) : i \in KeyedDays(days)}
            last(key) == CHOOSE i \in KeyedDays(days) :
                             /\ KeyOfDay(days[i]) = key
                             /\ \A j \in KeyedDays(days) :
                                    KeyOfDay(days[j]) = key => j <= i
        IN  /\ {ret.dailyData[e].key : e \in 1..Len(ret.dailyData)} = keys
            /\ Len(ret.dailyData) = Cardinality(keys)
            /\ \A e \in 1..Len(ret.dailyData) :
                  FracEq(ret.dailyData[e].value,
                         Frac(SecondsOfDay(days[last(ret.dailyData[e].key)]), 3600))
            /\ (\A i, j \in KeyedDays(days) :
                    i # j => KeyOfDay(days[i]) # KeyOfDay(days[j]))
                   => Len(ret.dailyData) = Cardinality(KeyedDays(days))

\* two records of 2025-01-01 around one keyed by its start field: two
\* entries, the first holding the later total
C17_Witness ==
    /\ call = "calculateDailyBreakdown"
    /\ Len(arg.data.data) = 3
    /\ arg.data.data[1].range.date = "2025-01-01"
    /\ arg.data.data[1].grand_total = [isNumber |-> TRUE, total_seconds |-> 3600]
    /\ arg.data.data[2].range = [date |-> "", start |-> "2025-01-03T00:00:00Z"]
    /\ arg.data.data[2].grand_total = [isNumber |-> TRUE, total_seconds |-> 3600]
    /\ arg.data.data[3].range.date = "2025-01-01"
    /\ arg.data.data[3].grand_total = [isNumber |-> TRUE, total_seconds |-> 1800]
    /\ ret.dailyData = << [key |-> "2025-01-01", value |-> Frac(1800, 3600)],
                          [key |-> "2025-01-03T00:00:00Z", value |-> Frac(3600, 3600)] >>

\* the items of one category over all days, in input order
RECURSIVE AllItems(_, _)
AllItems(days, field) ==
    IF days = <<>> THEN <<>>
    ELSE (IF Head(days)[field].isArray THEN Head(days)[field].items ELSE <<>>)
             \o AllItems(Tail(days), field)

RECURSIVE SecondsFor(_, _)
SecondsFor(items, names) ==
    IF items = <<>> THEN 0
    ELSE (IF Head(items).name \in names THEN Head(items).total_seconds ELSE 0)
             + SecondsFor(Tail(items), names)

FirstAppearance(items, name) ==
    CHOOSE i \in 1..Len(items) :
        items[i].name = name /\ \A j \in 1..(i - 1) : items[j].name # name

RECURSIVE GCD(_, _)
GCD(a, b) == IF b = 0 THEN a ELSE GCD(b, a % b)

\* a quotient in lowest terms
Lowest(q) ==
    LET g == GCD(Abs(q.num), q.den)
    IN  Frac(q.num \div g, q.den \div g)

RECURSIVE PercentSum(_)
PercentSum(ranking) ==
    IF ranking = <<>> THEN Frac(0, 1)
    ELSE Lowest(FracAdd(Lowest(Head(ranking).percent), PercentSum(Tail(ranking))))

Ranked(ranking, items) ==
    LET names == {items[i].name : i \in 1..Len(items)}
        total == SecondsFor(items, names)
    IN  /\ {ranking[i].name : i \in 1..Len(ranking)} = names
        /\ Len(ranking) = Cardinality(names)
        /\ \A i \in 1..Len(ranking) :
              /\ FracEq(ranking[i].hours,
                        Frac(SecondsFor(items, {ranking[i].name}), 3600))
              /\ IF total = 0 THEN IsZero(ranking[i].percent)
                 ELSE FracEq(FracTimes(ranking[i].percent, total),
                             Frac(SecondsFor(items, {ranking[i].name}) * 100, 1))
        /\ (total # 0) => FracEq(PercentSum(ranking), Frac(100, 1))
        /\ \A i, j \in 1..Len(ranking) :
              i < j =>
                  \/ FracGreater(ranking[i].hours, ranking[j].hours)
                  \/ /\ FracEq(ranking[i].hours, ranking[j].hours)
                     /\ FirstAppearance(items, ranking[i].name)
                            < FirstAppearance(items, ranking[j].name)

---------------------------------------------------------------------------
(* Properties of repeated calls *)

Outside(day, result) == day < result.billingStart \/ day > result.billingEnd

\* C19 as claimed: two calls of calcWorkHours with identical arguments
\* return equal results (same remainingDays, workdays, perDay and schedule)
\* regardless of when they are executed.
C19_EqualResults ==
    call = "calcWorkHoursAgain" =>
        /\ ret.remainingDays = prev.ret.remainingDays
        /\ ret.workdays = prev.ret.workdays
        /\ ret.perDay = prev.ret.perDay
        /\ ret.days = prev.ret.days

\* C19 (amended): calcWorkHours reads the current date, so its result is a
\* function of its arguments and of the day of the call: two calls with
\* identical arguments return equal results when they are executed on the
\* same day, or each on a day outside the billing period (before
\* billingStart or after billingEnd); on different days within the period
\* the schedules differ.
C19_EqualResultsOffPeriod ==
    call = "calcWorkHoursAgain" =>
        /\ (prev.today = today \/ (Outside(prev.today, ret) /\ Outside(today, ret)))
               => ret = prev.ret
        /\ (prev.today # today /\ ~Outside(prev.today, ret) /\ ~Outside(today, ret))
               => (ret.days # prev.ret.days /\ ret.remainingDays # prev.ret.remainingDays)

\* a call before the period and one after it, with the same schedule
C19_Witness ==
    /\ call = "calcWorkHoursAgain"
    /\ prev.today < ret.billingStart
    /\ today > ret.billingEnd
    /\ ret.workdays > 1
    /\ ret.days = prev.ret.days
    /\ ret.perDay = prev.ret.perDay

---------------------------------------------------------------------------
(* Properties of App *)

\* C20: after any sequence of handleCalculate, handleCSVImport and
\* handleWakaTimeData calls App holds data only for the active source: with
\* the calculator active actualsByDate, parsedRows, wakaTimeResult and
\* wakaTimeDailyData are empty; with CSV active wakaTimeResult and
\* wakaTimeDailyData are empty; with WakaTime active actualsByDate and
\* parsedRows are empty and `result` is not a leftover of an earlier
\* calculator or CSV activation.
C20_OnlyActiveSource ==
    /\ app.activeDataSource = "calculator" =>
          /\ app.actualsByDate = EmptyRecord
          /\ app.parsedRows = <<>>
          /\ app.wakaTimeResult = Null
          /\ app.wakaTimeDailyData = <<>>
    /\ app.activeDataSource = "csv" =>
          /\ app.wakaTimeResult = Null
          /\ app.wakaTimeDailyData = <<>>
    /\ app.activeDataSource = "wakatime" =>
          /\ app.actualsByDate = EmptyRecord
          /\ app.parsedRows = <<>>
          /\ app.resultFrom \notin {"calculator", "csv"}

---------------------------------------------------------------------------
(* Properties of the browser storage *)

\* the last instant at which the entry of a save is served
LastInstant(save) == save.at + save.ttlMinutes * 60 * 1000

C22_MergedSave ==
    LET loaded == loadFormState(localStorage)
        saved == getItem(localStorage, STORAGE_KEY)
    IN  /\ call = "saveFormState" =>
               /\ DOMAIN loaded = DOMAIN getDefaultState
               /\ \A k \in DOMAIN loaded :
                      loaded[k] = IF k \in DOMAIN arg.state THEN arg.state[k]
                                  ELSE prev.before[k]
        /\ \A k \in DOMAIN SavedFields : loaded[k] = SavedFields[k]
        /\ (saved = Null \/ JSONparse(saved).threw) => loaded = getDefaultState
        /\ call = "loadFormState" => ret.state = loaded

\* TimeSumCalculator saved its fields after App saved a total of its own:
\* the stored state has both, and the other fields are the defaults
C22_Witness ==
    /\ call = "saveFormState"
    /\ "tsInput" \in DOMAIN arg.state
    /\ "whTotal" \in DOMAIN SavedFields
    /\ SavedFields["whTotal"] # getDefaultState.whTotal
    /\ loadFormState(localStorage).whTotal = SavedFields["whTotal"]
    /\ loadFormState(localStorage).tsOutput = "Total: 1 hrs 30 mins"
    /\ loadFormState(localStorage).csvHourlyRate = "0"

---------------------------------------------------------------------------
(* Properties of the CSV import *)

\* the date cell of a row
DateOf(row) == Coalesce(row, <<"Date", "date", "DATE">>, NoCell)

\* the rows with a date that is present and can be read
Dated(data) == {i \in 1..Len(data) : DateOf(data[i]).form \in {"iso", "slash"}}

\* floor(hrs) * 60 + floor(mins) of a row
RowMinutes(row) ==
    FloorOrZero(OrZero(Number(row["HRS"]))) * 60
        + FloorOrZero(OrZero(Number(row["MINS"])))

RECURSIVE MinutesOver(_, _)
MinutesOver(data, indices) ==
    IF indices = {} THEN 0
    ELSE LET i == CHOOSE j \in indices : TRUE
         IN  RowMinutes(data[i]) + MinutesOver(data, indices \ {i})

\* C23: parseCSV returns one group per distinct calendar date written in
\* the rows with a valid date, in ascending order of date; the minutes of a
\* group are the sum of floor(hrs)*60 + floor(mins) over the rows of that
\* date, actualsByDate maps each date to that sum, and rows without a
\* readable date are skipped.
C23_GroupedByCalendarDate ==
    call = "parseCSV" =>
        LET data == arg.data
            dates == {DateOf(data[i]).day : i \in Dated(data)}
            grouped == ret.grouped
        IN  /\ {grouped[i].date : i \in 1..Len(grouped)} = dates
            /\ Len(grouped) = Cardinality(dates)
            /\ \A i \in 1..(Len(grouped) - 1) : grouped[i].date < grouped[i + 1].date
            /\ \A i \in 1..Len(grouped) :
                   grouped[i].minutes =
                       MinutesOver(data, {j \in Dated(data) :
                                             DateOf(data[j]).day = grouped[i].date})
            /\ DOMAIN ret.actualsByDate = dates
            /\ \A i \in 1..Len(grouped) :
                   ret.actualsByDate[grouped[i].date] = grouped[i].minutes

---------------------------------------------------------------------------
(* Properties of WorkHoursCalculator *)

\* C26: the component calculates by itself only at startup and only if the
\* form state was in localStorage before it mounted: when nothing was stored
\* and Calculate has not been clicked, no calculation has run and App has
\* no result; and the automatic calculation runs at most once, never after
\* a later change of an input.
C26_AutoCalculateAtStartup ==
    (calculator.mounted /\ calculator.effects = "none") =>
        /\ (~calculator.storedBefore /\ ~calculator.clicked) =>
               /\ calculator.automatic = 0
               /\ app.resultFrom = "null"
        /\ calculator.automatic <= 1

---------------------------------------------------------------------------
(* Properties of WakaTimeTracker *)

\* the stored text holds an API key a user has typed: as the whole text or
\* as the apiKey of a stored object
HoldsApiKey(saved) ==
    \/ "text" \in DOMAIN saved /\ saved.text \in ApiKeys
    \/ /\ "json" \in DOMAIN saved
       /\ "apiKey" \in DOMAIN saved.json
       /\ saved.json.apiKey \in ApiKeys

\* C24: with Remember API key off the key is not persisted: once the
\* checkbox is off and the effects have run, no entry of localStorage
\* holds the key, neither 'wakatime_api_key' nor the object under
\* 'wakatime_form_state', and loadWakaTimeFormState() returns an empty
\* apiKey, whatever was typed and toggled before.
C24_KeyNotPersisted ==
    (tracker.mounted /\ ~tracker.rememberApiKey) =>
        /\ \A key \in DOMAIN localStorage : ~HoldsApiKey(localStorage[key])
        /\ loadWakaTimeFormState(localStorage).apiKey = ""

\* the last event was a run of handleFetchData with one of the outcomes
FetchOutcome(outcomes) == "outcome" \in DOMAIN arg /\ arg.outcome \in outcomes

\* C25: a fetch recalculates from the fetched data: after handleFetchData
\* has set completedHours to the fetched total and called onDataFetch, the
\* result App has stored is computed with that completedHours.
C25_RecalculatedFromFetched ==
    (FetchOutcome({"fetched", "cached"}) /\ app.result # Null) =>
        app.result.completed = parseTime(form.completedHours).value

\* the Fetch Data button shows that it is loading
Loading == tracker.mounted /\ tracker.loading

\* a request of project data is awaiting its answer
Pending == \E i \in DOMAIN network : network[i].kind = "summaries"

\* the step is a run of handleFetchData, or its continuation, with one of
\* the outcomes
FetchStep(outcomes) ==
    /\ "outcome" \in DOMAIN arg'
    /\ arg'.outcome \in outcomes

\* C27 (steps): a run that fails a validation or is declined touches
\* neither the loading flag nor the cache nor the API; a validated run
\* that is not served from the cache sets loading and sends its request;
\* a run that throws sets the message, clears the local result and leaves
\* App as it was (onDataFetch is not called).
C27_Steps ==
    /\ FetchStep({"invalid", "declined"}) =>
           /\ tracker'.loading = tracker.loading
           /\ localStorage' = localStorage
           /\ network' = network
    /\ FetchStep({"requested"}) =>
           /\ tracker'.loading
           /\ Len(network') = Len(network) + 1
    /\ FetchStep({"threw"}) =>
           /\ tracker.loading
           /\ tracker'.error # Null
           /\ tracker'.result = Null
           /\ app' = app
           /\ form' = form

\* C27 (states): loading is set exactly while a run awaits its answer, so
\* every run that has returned has left loading false.
C27_Returned ==
    tracker.mounted =>
        /\ tracker.loading <=> Pending
        /\ FetchOutcome({"invalid", "declined", "cached", "fetched", "threw"}) =>
               ~tracker.loading

FreshUntil(at, ttlMinutes) == at + ttlMinutes * 60 * 1000

\* the project and the period the tracker would ask for now
AskedNow == Asked(tracker.projectName, form)

\* C29: a cache hit is decided by the project and the dates alone, and by
\* the fixed key 'projects' for the suggestions: while data fetched for the
\* project and the dates is within its ttl, the lookup of handleFetchData
\* finds it whatever the API key is now, and a validated run returns it
\* without a request; the same holds for the suggestions within their ttl.
C29_CacheIgnoresApiKey ==
    tracker.mounted =>
        /\ (AskedNow \in DOMAIN Fetched /\ now <= FreshUntil(Fetched[AskedNow].at, DefaultTtl)) =>
               /\ loadFromCache(localStorage, FetchCacheKey(tracker, form)).value
                      = Fetched[AskedNow].data
               /\ ~FetchOutcome({"requested"})
               /\ FetchOutcome({"cached"}) =>
                      /\ tracker.result = Fetched[AskedNow].data.result
                      /\ app.wakaTimeResult = Fetched[AskedNow].data.result
                      /\ ~Pending
        /\ (FetchedProjects # Null /\ now <= FreshUntil(FetchedProjects.at, SuggestionsTtl)) =>
               /\ loadFromCache(localStorage, <<"projects">>).value
                      = [names |-> FetchedProjects.names]
               /\ (tracker.apiKey # FetchedProjects.apiKey /\ Len(tracker.apiKey) >= 20) =>
                      tracker.timer = Null

\* data fetched with one API key is served from the cache under another
C29_Witness ==
    /\ tracker.mounted
    /\ FetchOutcome({"cached"})
    /\ AskedNow \in DOMAIN Fetched
    /\ Fetched[AskedNow].apiKey # tracker.apiKey
    /\ tracker.result = Fetched[AskedNow].data.result
    /\ ~Pending

---------------------------------------------------------------------------
(* Properties of time_calculator *)

\* the minutes between the two times of a 'Start: .., End: ..' text of one
\* day, read at the places where the pattern has its hours and minutes
StartEndMinutes(text) ==
    (parseInt(SubSeq(text, 42, 43)) * 60 + parseInt(SubSeq(text, 45, 46)))
        - (parseInt(SubSeq(text, 19, 20)) * 60 + parseInt(SubSeq(text, 22, 23)))

\* the duration a time string extracted from a PDF stands for
ExtractedMinutes(timeString) ==
    IF parseTimeString(timeString).threw THEN StartEndMinutes(timeString)
    ELSE parseTimeString(timeString).value

\* the sum of the durations of the time strings from the i-th on
RECURSIVE SumOver(_, _)
SumOver(timeStrings, i) ==
    IF i > Len(timeStrings) THEN 0
    ELSE ExtractedMinutes(timeStrings[i]) + SumOver(timeStrings, i + 1)

\* every valid command-line duration once and every duration of the PDFs of
\* every --pdf-dir once
RECURSIVE CountedOnce(_)
CountedOnce(args) ==
    IF args = <<>> THEN 0
    ELSE CountedOnce(Tail(args))
             + (IF StartsWith(Head(args), PdfDirFlag)
                THEN SumOver(processPDFs(Split(Head(args), "=")[2]).value, 1)
                ELSE IF StartsWith(Head(args), DashDash) THEN 0
                ELSE parseTimeString(Head(args)).value)

\* C28: the total time_calculator prints counts every duration exactly
\* once: for any mix of command-line time strings and --pdf-dir arguments
\* it is the sum of each valid command-line duration once and of each
\* duration extracted from the PDFs once.
C28_EachDurationOnce ==
    (call = "main" /\ ret.exit = 0) =>
        ret.printed = TotalLabel \o formatTime(CountedOnce(arg.args))

=====
